---- MODULE Spec2Model ----
(***************************************************************************)
(* Production scheduling: the schedule representation, the EDD delivery    *)
(* allocator, the profit evaluator and the search algorithms (GA, VNS, SA) *)
(* that operate on schedules.                                              *)
(*                                                                         *)
(* Numbers.  The program computes money in floating point.  The model      *)
(* keeps every money amount exact, as an integer number of hundredths:     *)
(* wage multipliers are stored times 100 (1.35 is 135) and the 0.1 of the  *)
(* penalty is 10 hundredths.  A production rate is stored times 10, so     *)
(* that int(4 * rate) truncates something.                                 *)
(*                                                                         *)
(* Objects.  A Python list is an object: two names can hold the same list. *)
(* Where the code relies on (or forgets) copies, the model keeps a heap of *)
(* objects and the variables hold references into it.                      *)
(***************************************************************************)
EXTENDS Integers, Sequences, FiniteSets, TLC

\* ------------------------------------------------------------ bounds
MaxQty == 2
MaxActive == 2

\* ------------------------------------------------------------ entities
SLOTS_PER_DAY == 6

None == 0

KeyError == "KeyError"

day_of_slot(slot_index) == slot_index \div SLOTS_PER_DAY

slot_in_day(slot_index) == slot_index % SLOTS_PER_DAY

\* int(rate_per_hour): the four hours of a slot forgotten
SlotCapacityOneHour(p) == p.rate10 \div 10

\* Product.slot_capacity: int(4 * rate_per_hour), the rate held in tenths.
slot_capacity(p) == (4 * p.rate10) \div 10

MinOf(S) == CHOOSE x \in S : \A y \in S : x <= y

MaxOf(S) == CHOOSE x \in S : \A y \in S : x >= y

\* Config.product_by_id: the first product with that id, or KeyError.
product_by_id(cfg, pid) ==
  LET hits == {i \in DOMAIN cfg.products : cfg.products[i].id = pid}
  IN  IF hits = {} THEN KeyError ELSE cfg.products[MinOf(hits)]

\* Order.available_from_day
available_from_day(o) ==
  o.arrival_day + (IF o.arrival_slot_index > 0 THEN 1 ELSE 0)

\* ------------------------------------------------------------ helpers
\* f with f[i] set to v
Upd(f, i, v) == [n \in DOMAIN f |-> IF n = i THEN v ELSE f[n]]

\* One number per order, as a list.
ZeroPerOrder(orders) == [n \in 1..Len(orders) |-> 0]

RECURSIVE SumSeq(_)
SumSeq(q) == IF q = <<>> THEN 0 ELSE Head(q) + SumSeq(Tail(q))

RECURSIVE SumFn(_, _)
SumFn(f, S) ==
  IF S = {} THEN 0
  ELSE LET x == CHOOSE y \in S : TRUE IN f[x] + SumFn(f, S \ {x})

Min2(a, b) == IF a <= b THEN a ELSE b

\* Slot s (0-based, as in the code) of a schedule held as a 1-based sequence.
SlotRow(schedule, s) == schedule[s + 1]

NumActive(lines) == Cardinality({l \in DOMAIN lines : lines[l] # None})

\* ------------------------------------------------------------ allocator
\* a sort key that looks at the margin only
KeyLessMarginOnly(cfg, p, a, b) ==
  -(a.unit_price - product_by_id(cfg, p).unit_cost)
    < -(b.unit_price - product_by_id(cfg, p).unit_cost)

\* The sort key of edd_decoder.py line 26: (due_day, -(unit_price - unit_cost)).
KeyLess(cfg, p, a, b) ==
  \/ a.due_day < b.due_day
  \/ /\ a.due_day = b.due_day
     /\ -(a.unit_price - product_by_id(cfg, p).unit_cost)
          < -(b.unit_price - product_by_id(cfg, p).unit_cost)

\* list.sort is stable: an element goes after every element that is not
\* greater than it.  Orders are named by their position in the input list.
RECURSIVE InsertSorted(_, _, _, _, _)
InsertSorted(cfg, orders, p, sorted, i) ==
  IF sorted = <<>> THEN <<i>>
  ELSE IF KeyLess(cfg, p, orders[i], orders[Head(sorted)])
       THEN <<i>> \o sorted
       ELSE <<Head(sorted)>> \o InsertSorted(cfg, orders, p, Tail(sorted), i)

RECURSIVE SortFrom(_, _, _, _, _)
SortFrom(cfg, orders, p, sorted, i) ==
  IF i > Len(orders) THEN sorted
  ELSE IF orders[i].product = p
       THEN SortFrom(cfg, orders, p, InsertSorted(cfg, orders, p, sorted, i), i + 1)
       ELSE SortFrom(cfg, orders, p, sorted, i + 1)

\* prod_orders[p]: the orders of product p, sorted.
prod_orders(cfg, orders, p) == SortFrom(cfg, orders, p, <<>>, 1)

\* The sequence of distinct products of a slot, in the order a dict first sees them.
RECURSIVE ProducedKeys(_, _)
ProducedKeys(lines, seen) ==
  IF lines = <<>> THEN <<>>
  ELSE IF Head(lines) = None \/ Head(lines) \in seen
       THEN ProducedKeys(Tail(lines), seen)
       ELSE <<Head(lines)>> \o ProducedKeys(Tail(lines), seen \cup {Head(lines)})

\* produced_by_product[p]: every line running p adds the slot capacity of p.
produced_by_product(cfg, lines, p) ==
  Cardinality({l \in DOMAIN lines : lines[l] = p}) * slot_capacity(product_by_id(cfg, p))

\* ConsumeDecode with take = produced: the min with the need forgotten.
RECURSIVE ConsumeDecodeNoMin(_, _, _, _, _, _)
ConsumeDecodeNoMin(orders, day, q, k, produced, st) ==
  IF k > Len(q) THEN st
  ELSE LET i == q[k]
           need == st.remaining[i]
           take == produced
       IN  IF day < available_from_day(orders[i])
             THEN ConsumeDecodeNoMin(orders, day, q, k + 1, produced, st)
           ELSE IF need <= 0
             THEN ConsumeDecodeNoMin(orders, day, q, k + 1, produced, st)
           ELSE IF take > 0
             THEN LET st2 == [remaining |-> Upd(st.remaining, i, st.remaining[i] - take),
                              taken |-> Upd(st.taken, i, st.taken[i] + take)]
                  IN  IF produced - take <= 0 THEN st2
                      ELSE ConsumeDecodeNoMin(orders, day, q, k + 1, produced - take, st2)
           ELSE IF produced <= 0 THEN st
           ELSE ConsumeDecodeNoMin(orders, day, q, k + 1, produced, st)

\* The inner loop of decode_assignments over the orders of one product in one
\* slot.  st = [remaining, taken]: taken[i] is what order i got in this slot.
RECURSIVE ConsumeDecode(_, _, _, _, _, _)
ConsumeDecode(orders, day, q, k, produced, st) ==
  IF k > Len(q) THEN st
  ELSE LET i == q[k]
           need == st.remaining[i]
           take == Min2(need, produced)
       IN  IF day < available_from_day(orders[i])
             THEN ConsumeDecode(orders, day, q, k + 1, produced, st)
           ELSE IF need <= 0
             THEN ConsumeDecode(orders, day, q, k + 1, produced, st)
           ELSE IF take > 0
             THEN LET st2 == [remaining |-> Upd(st.remaining, i, st.remaining[i] - take),
                              taken |-> Upd(st.taken, i, st.taken[i] + take)]
                  IN  IF produced - take <= 0 THEN st2
                      ELSE ConsumeDecode(orders, day, q, k + 1, produced - take, st2)
           ELSE IF produced <= 0 THEN st
           ELSE ConsumeDecode(orders, day, q, k + 1, produced, st)

RECURSIVE DecodeProducts(_, _, _, _, _, _)
DecodeProducts(cfg, orders, lines, day, keys, st) ==
  IF keys = <<>> THEN st
  ELSE LET p == Head(keys)
           produced == produced_by_product(cfg, lines, p)
       IN  IF produced <= 0
             THEN DecodeProducts(cfg, orders, lines, day, Tail(keys), st)
             ELSE DecodeProducts(cfg, orders, lines, day, Tail(keys),
                    ConsumeDecode(orders, day, prod_orders(cfg, orders, p), 1, produced, st))

\* One iteration of the slot loop of decode_assignments.
DecodeSlot(cfg, orders, schedule, s, remaining) ==
  DecodeProducts(cfg, orders, SlotRow(schedule, s), day_of_slot(s),
                 ProducedKeys(SlotRow(schedule, s), {}),
                 [remaining |-> remaining, taken |-> ZeroPerOrder(orders)])

\* The slot loop: the sequence of [remaining, taken] after each slot.
RECURSIVE DecodeTrace(_, _, _, _, _)
DecodeTrace(cfg, orders, schedule, s, remaining) ==
  IF s >= Len(schedule) THEN <<>>
  ELSE LET st == DecodeSlot(cfg, orders, schedule, s, remaining)
       IN  <<st>> \o DecodeTrace(cfg, orders, schedule, s + 1, st.remaining)

InitialRemaining(orders) == [n \in 1..Len(orders) |-> orders[n].qty]

FinalRemaining(orders, trace) ==
  IF trace = <<>> THEN InitialRemaining(orders) ELSE trace[Len(trace)].remaining

\* delivered = {o.id: o.qty - remaining[o.id]}
DeliveredBug(orders, remaining) == [i \in DOMAIN orders |-> remaining[i]]

Delivered(orders, remaining) == [i \in DOMAIN orders |-> orders[i].qty - remaining[i]]

decode_assignments(schedule, cfg, orders) ==
  Delivered(orders,
            FinalRemaining(orders, DecodeTrace(cfg, orders, schedule, 0, InitialRemaining(orders))))

\* ------------------------------------------------------------ evaluator
\* "if day <= o.due_day": the due day itself counted as before due
CountsBeforeDueInclusive(day, o) == day <= o.due_day

\* if day < o.due_day (fitness.py line 42)
CountsBeforeDue(day, o) == day < o.due_day

\* a second pass that hands out no units on or after the due day
RECURSIVE ConsumeDueSkipsLate(_, _, _, _, _, _)
ConsumeDueSkipsLate(orders, day, q, k, produced, st) ==
  IF k > Len(q) THEN st
  ELSE LET i == q[k]
           need == st.remaining[i]
           take == Min2(need, produced)
       IN  IF day < available_from_day(orders[i]) \/ day >= orders[i].due_day
             THEN ConsumeDueSkipsLate(orders, day, q, k + 1, produced, st)
           ELSE IF need <= 0
             THEN ConsumeDueSkipsLate(orders, day, q, k + 1, produced, st)
           ELSE IF take > 0
             THEN LET st2 == [remaining |-> Upd(st.remaining, i, st.remaining[i] - take),
                              before_due |-> Upd(st.before_due, i, st.before_due[i] + take),
                              taken |-> Upd(st.taken, i, st.taken[i] + take)]
                  IN  IF produced - take <= 0 THEN st2
                      ELSE ConsumeDueSkipsLate(orders, day, q, k + 1, produced - take, st2)
           ELSE IF produced <= 0 THEN st
           ELSE ConsumeDueSkipsLate(orders, day, q, k + 1, produced, st)

\* The inner loop of the second pass of evaluate_schedule (fitness.py 33-47):
\* the same greedy, and a unit counts as delivered before due only on a day
\* before the order's due day.  st = [remaining, before_due, taken].
RECURSIVE ConsumeDue(_, _, _, _, _, _)
ConsumeDue(orders, day, q, k, produced, st) ==
  IF k > Len(q) THEN st
  ELSE LET i == q[k]
           need == st.remaining[i]
           take == Min2(need, produced)
       IN  IF day < available_from_day(orders[i])
             THEN ConsumeDue(orders, day, q, k + 1, produced, st)
           ELSE IF need <= 0
             THEN ConsumeDue(orders, day, q, k + 1, produced, st)
           ELSE IF take > 0
             THEN LET st2 == [remaining |-> Upd(st.remaining, i, st.remaining[i] - take),
                              before_due |->
                                IF CountsBeforeDue(day, orders[i])
                                  THEN Upd(st.before_due, i, st.before_due[i] + take)
                                  ELSE st.before_due,
                              taken |-> Upd(st.taken, i, st.taken[i] + take)]
                  IN  IF produced - take <= 0 THEN st2
                      ELSE ConsumeDue(orders, day, q, k + 1, produced - take, st2)
           ELSE IF produced <= 0 THEN st
           ELSE ConsumeDue(orders, day, q, k + 1, produced, st)

RECURSIVE DueProducts(_, _, _, _, _, _)
DueProducts(cfg, orders, lines, day, keys, st) ==
  IF keys = <<>> THEN st
  ELSE DueProducts(cfg, orders, lines, day, Tail(keys),
         ConsumeDue(orders, day, prod_orders(cfg, orders, Head(keys)), 1,
                    produced_by_product(cfg, lines, Head(keys)), st))

\* The second pass over all slots, from slot s on.
RECURSIVE DuePass(_, _, _, _, _)
DuePass(cfg, orders, schedule, s, st) ==
  IF s >= Len(schedule) THEN st
  ELSE DuePass(cfg, orders, schedule, s + 1,
         DueProducts(cfg, orders, SlotRow(schedule, s), day_of_slot(s),
                     ProducedKeys(SlotRow(schedule, s), {}),
                     [st EXCEPT !.taken = ZeroPerOrder(orders)]))

\* The second pass slot by slot: the sequence of its states after each slot.
RECURSIVE DueTrace(_, _, _, _, _)
DueTrace(cfg, orders, schedule, s, st) ==
  IF s >= Len(schedule) THEN <<>>
  ELSE LET st2 == DueProducts(cfg, orders, SlotRow(schedule, s), day_of_slot(s),
                              ProducedKeys(SlotRow(schedule, s), {}),
                              [st EXCEPT !.taken = ZeroPerOrder(orders)])
       IN  <<st2>> \o DueTrace(cfg, orders, schedule, s + 1, st2)

delivered_before_due_pass(schedule, cfg, orders) ==
  DuePass(cfg, orders, schedule, 0,
          [remaining |-> InitialRemaining(orders),
           before_due |-> ZeroPerOrder(orders),
           taken |-> ZeroPerOrder(orders)]).before_due

\* revenue (fitness.py 49-55), in hundredths
Revenue(orders, delivered_total) ==
  SumSeq([i \in DOMAIN orders |->
            100 * Min2(delivered_total[i], orders[i].qty) * orders[i].unit_price])

\* production cost of one slot (fitness.py 63-68), in hundredths
RowProdCost(cfg, lines) ==
  SumSeq([l \in DOMAIN lines |->
            IF lines[l] = None THEN 0
            ELSE 100 * slot_capacity(product_by_id(cfg, lines[l]))
                     * product_by_id(cfg, lines[l]).unit_cost])

ProdCost(cfg, schedule) ==
  SumSeq([k \in DOMAIN schedule |-> RowProdCost(cfg, schedule[k])])

\* wage cost (fitness.py 71-76), in hundredths: wage * multiplier * active lines
WageCost(cfg, schedule) ==
  SumSeq([k \in DOMAIN schedule |->
            cfg.wage_per_slot_per_line
              * cfg.wage_multiplier_per_slot[slot_in_day(k - 1) + 1]
              * NumActive(schedule[k])])

\* a penalty in proportion to the units that are short
PenaltyProportional(orders, before_due) ==
  SumSeq([i \in DOMAIN orders |->
            10 * MaxOf({0, orders[i].qty - before_due[i]}) * orders[i].unit_price])

OnTime(orders, before_due) == {i \in DOMAIN orders : before_due[i] >= orders[i].qty}

\* penalty (fitness.py 79-85), in hundredths: 0.1 * qty * unit_price
Penalty(orders, before_due) ==
  SumSeq([i \in DOMAIN orders |->
            IF i \in OnTime(orders, before_due) THEN 0
            ELSE 10 * orders[i].qty * orders[i].unit_price])

\* the quotient without "if total_orders else 0.0"
RateUnguarded(a, b) == <<a, b>>

\* a / b if b else 0.0, kept as the fraction <<a, b>> (<<0, 1>> is 0.0)
Rate(a, b) == IF b # 0 THEN <<a, b>> ELSE <<0, 1>>

ProfitNoPenalty(revenue, prod_cost, wage_cost, penalty) ==
  revenue - prod_cost - wage_cost

\* fitness.py line 94
Profit(revenue, prod_cost, wage_cost, penalty) ==
  revenue - prod_cost - wage_cost - penalty

evaluate_schedule(schedule, cfg, orders) ==
  LET delivered_total == decode_assignments(schedule, cfg, orders)
      before_due == delivered_before_due_pass(schedule, cfg, orders)
      revenue == Revenue(orders, delivered_total)
      prod_cost == ProdCost(cfg, schedule)
      wage_cost == WageCost(cfg, schedule)
      penalty == Penalty(orders, before_due)
      active_lines_count == SumSeq([k \in DOMAIN schedule |-> NumActive(schedule[k])])
      total_lines_slots == SumSeq([k \in DOMAIN schedule |-> Len(schedule[k])])
      on_time_orders == Cardinality(OnTime(orders, before_due))
      total_orders == Len(orders)
  IN  [total_revenue |-> revenue,
       production_cost |-> prod_cost,
       wage_cost |-> wage_cost,
       penalty |-> penalty,
       profit |-> Profit(revenue, prod_cost, wage_cost, penalty),
       utilization_rate |-> Rate(active_lines_count, total_lines_slots),
       on_time_rate |-> Rate(on_time_orders, total_orders),
       penalty_rate |-> Rate(total_orders - on_time_orders, total_orders),
       delivered_per_order |->
         [i \in DOMAIN orders |-> Min2(delivered_total[i], orders[i].qty)]]

profit_of(schedule, cfg, orders) == evaluate_schedule(schedule, cfg, orders).profit

\* ------------------------------------------------------------ inputs
\* Two products: 0.5 units/hour (slot capacity 2) and 0.3 units/hour (slot
\* capacity int(1.2) = 1).
Products ==
  << [id |-> 1, rate10 |-> 5, unit_cost |-> 1],
     [id |-> 2, rate10 |-> 3, unit_cost |-> 2] >>

ProductIds == {Products[i].id : i \in DOMAIN Products}

\* The multipliers of default_config (generator.py line 15), times 100.
DefaultMultipliers == <<100, 110, 120, 135, 150, 130>>

BaseConfig ==
  [lines |-> 2,
   products |-> Products,
   wage_per_slot_per_line |-> 2,
   wage_multiplier_per_slot |-> DefaultMultipliers,
   allow_idle |-> TRUE]

\* Orders arrive on day 0, in the morning (available on day 0) or later
\* (available on day 1), and are due on day 1 or 2; the quantity is 1 or MaxQty.
Orders ==
  [product : ProductIds, qty : {1, MaxQty}, unit_price : {3, 4}, arrival_day : {0},
   arrival_slot_index : {0, 1}, due_day : {1, 2}, delivered : {0}]

\* Lists of at most two orders.  The price only orders the orders of one
\* product, so two orders of different products both take the higher price.
OrderLists ==
  {<<>>} \cup {<<a>> : a \in Orders}
    \cup {q \in {<<a, b>> : a \in Orders, b \in Orders} :
              q[1].product = q[2].product
                \/ (q[1].unit_price = 4 /\ q[2].unit_price = 4)}

ShortOrderLists ==
  {<<>>} \cup {<<a>> : a \in {c \in Orders : c.unit_price = 4 /\ c.qty = MaxQty
                                              /\ c.arrival_slot_index = 0}}

\* One day and two slots of the next.
NumSlots == SLOTS_PER_DAY + 2

IdleSchedule(slots, lines) == [k \in 1..slots |-> [l \in 1..lines |-> None]]

RECURSIVE SubsetsUpTo(_, _)
SubsetsUpTo(S, n) ==
  IF n = 0 THEN {{}}
  ELSE LET T == SubsetsUpTo(S, n - 1) IN T \cup {t \cup {x} : t \in T, x \in S}

\* The schedule that runs f[pos] at every position pos = <<k, l>> of DOMAIN f.
ScheduleOf(slots, lines, f) ==
  [k \in 1..slots |-> [l \in 1..lines |->
     IF <<k, l>> \in DOMAIN f THEN f[<<k, l>>] ELSE None]]

\* Schedules with at most MaxActive active line-slots, anywhere.
SparseSchedules(slots, lines) ==
  UNION {{ScheduleOf(slots, lines, f) : f \in [P -> ProductIds]} :
           P \in SubsetsUpTo((1..slots) \X (1..lines), MaxActive)}

\* Schedules that are active only in slot 1 (day 0) and slot 6 (day 1).
ProbeSchedules(slots, lines) ==
  {ScheduleOf(slots, lines, f) :
     f \in [{2, SLOTS_PER_DAY + 1} \X (1..lines) -> ProductIds \cup {None}]}

\* ------------------------------------------------------------ state
VARIABLES
  config,     \* the Config
  orders,     \* the list of Order objects the caller holds
  schedule,   \* the Schedule the caller holds
  in0,        \* the caller's orders and schedule as they were at the start
  calls,      \* the results of the calls of decode_assignments so far
  res,        \* <<the EvaluationResult of evaluate_schedule>>, or NoRes
  ga,         \* the state of a run of run_ga (GaIdle when none runs)
  ls,         \* the state of a call of vns_improve or run_sa (LsIdle when none runs)
  pso,        \* a call of decode_particle_to_schedule (PsoIdle when none was made)
  drv         \* the state of a run of the driver, main() (DrvIdle when none runs)

vars == <<config, orders, schedule, in0, calls, res, ga, ls, pso, drv>>

GaIdle == [pc |-> "idle"]

LsIdle == [pc |-> "idle"]

PsoIdle == [pc |-> "idle"]

DrvIdle == [pc |-> "idle"]

NoRes == <<>>

\* ------------------------------------------------------------ allocator and evaluator calls
Init ==
  /\ config = BaseConfig
  /\ \/ /\ schedule \in ProbeSchedules(NumSlots, config.lines)
        /\ orders \in OrderLists
     \/ /\ schedule \in SparseSchedules(NumSlots, config.lines)
        /\ orders \in ShortOrderLists
  /\ in0 = [orders |-> orders, schedule |-> schedule]
  /\ calls = <<>>
  /\ res = NoRes
  /\ ga = GaIdle
  /\ ls = LsIdle
  /\ pso = PsoIdle
  /\ drv = DrvIdle

OrdersAfterDecodeInPlace(ords, remaining) ==
  [i \in DOMAIN ords |-> [ords[i] EXCEPT !.qty = remaining[i]]]

\* decode_assignments works on copies of the orders (edd_decoder.py 17-20) and
\* keeps the remaining demand in a dict of its own: the caller's orders stay.
OrdersAfterDecode(ords, remaining) == ords

\* A call of decode_assignments(schedule, config, orders).
Decode ==
  /\ Len(calls) < 2
  /\ LET trace == DecodeTrace(config, orders, schedule, 0, InitialRemaining(orders))
         remaining == FinalRemaining(orders, trace)
     IN  /\ calls' = Append(calls, [delivered |-> Delivered(orders, remaining),
                                    trace |-> trace])
         /\ orders' = OrdersAfterDecode(orders, remaining)
  /\ UNCHANGED <<config, schedule, in0, res, ga, ls, pso, drv>>

\* A call of evaluate_schedule(schedule, config, orders).
Evaluate ==
  /\ Len(calls) = 2
  /\ res = NoRes
  /\ res' = <<evaluate_schedule(schedule, config, orders)>>
  /\ UNCHANGED <<config, orders, schedule, in0, calls, ga, ls, pso, drv>>

Next == Decode \/ Evaluate

Spec == Init /\ [][Next]_vars

\* The same calls, on the inputs of the monotonicity check: every schedule
\* that is active only in the two probe slots, with every list of at most two
\* orders of the higher price.
InitMono ==
  /\ config = BaseConfig
  /\ schedule \in ProbeSchedules(NumSlots, config.lines)
  /\ orders \in {q \in OrderLists : \A i \in DOMAIN q : q[i].unit_price = 4}
  /\ in0 = [orders |-> orders, schedule |-> schedule]
  /\ calls = <<>>
  /\ res = NoRes
  /\ ga = GaIdle
  /\ ls = LsIdle
  /\ pso = PsoIdle
  /\ drv = DrvIdle

SpecMono == InitMono /\ [][Next]_vars

\* ------------------------------------------------------------ claims C1-C4
\* The active line-slots of a schedule, as <<slot, line>> with slot 0-based.
ActiveLineSlots(sch) ==
  {<<s, l>> \in (0..(Len(sch) - 1)) \X (1..Len(sch[1])) : SlotRow(sch, s)[l] # None}

\* C1: the result of evaluate_schedule satisfies profit = total_revenue -
\* production_cost - wage_cost - penalty, where production_cost is the sum over
\* the active line-slots of slot_capacity * unit_cost and wage_cost the sum over
\* the slots of (active lines) * wage_per_slot_per_line * multiplier[slot mod 6]
\* (amounts in hundredths).
C1_ProfitIdentity ==
  res # NoRes =>
    LET r == res[1]
        act == ActiveLineSlots(schedule)
        UnitCost ==
          [x \in act |->
             LET p == product_by_id(config, SlotRow(schedule, x[1])[x[2]])
             IN  100 * slot_capacity(p) * p.unit_cost]
        Wage ==
          [s \in 0..(Len(schedule) - 1) |->
             Cardinality({x \in act : x[1] = s})
               * config.wage_per_slot_per_line
               * config.wage_multiplier_per_slot[(s % 6) + 1]]
    IN  /\ r.profit = r.total_revenue - r.production_cost - r.wage_cost - r.penalty
        /\ r.production_cost = SumFn(UnitCost, act)
        /\ r.wage_cost = SumFn(Wage, 0..(Len(schedule) - 1))

\* C1 witness: an evaluation in which all four terms are positive.
C1_Witness ==
  /\ res # NoRes
  /\ res[1].total_revenue > 0 /\ res[1].production_cost > 0
  /\ res[1].wage_cost > 0 /\ res[1].penalty > 0

\* C2: after every prefix of the slots processed by decode_assignments each
\* order's delivered units are between 0 and its qty, and in every slot the
\* units of product p handed to orders are at most (lines running p) * slot
\* capacity of p: what a slot does not use is not available to a later slot.
C2_Conservation ==
  \A c \in DOMAIN calls :
    \A k \in DOMAIN calls[c].trace :
      LET st == calls[c].trace[k]
      IN  /\ \A i \in DOMAIN orders :
               /\ orders[i].qty - st.remaining[i] >= 0
               /\ orders[i].qty - st.remaining[i] <= orders[i].qty
          /\ \A p \in ProductIds :
               SumFn(st.taken, {i \in DOMAIN orders : orders[i].product = p})
                 <= Cardinality({l \in DOMAIN schedule[k] : schedule[k][l] = p})
                      * slot_capacity(product_by_id(config, p))

\* C2 witness: a slot produced more of p than its orders could take while
\* a later slot ends with an order of p still short.
C2_Witness ==
  \E c \in DOMAIN calls : \E k1, k2 \in DOMAIN calls[c].trace : \E p \in ProductIds :
    /\ k1 < k2
    /\ SumFn(calls[c].trace[k1].taken, {i \in DOMAIN orders : orders[i].product = p})
         < produced_by_product(config, schedule[k1], p)
    /\ \E i \in DOMAIN orders :
         /\ orders[i].product = p
         /\ calls[c].trace[k2].taken[i] > 0
         /\ calls[c].trace[k2].remaining[i] > 0

\* The schedule with line l of slot s (0-based) running p.
WithEntry(sch, s, l, p) == [sch EXCEPT ![s + 1][l] = p]

\* What a delivered mapping gives to the orders of product p.
DeliveredOfProduct(ords, delivered, p) ==
  SumFn(delivered, {i \in DOMAIN ords : ords[i].product = p})

OrderedProducts(ords) == {ords[i].product : i \in DOMAIN ords}

\* C3: turning one idle line-slot into product p never lowers the total that
\* decode_assignments delivers to the orders of p.
C3_Monotone ==
  Len(calls) = 1 =>
    \A x \in (0..(Len(schedule) - 1)) \X (1..config.lines) :
      \A p \in OrderedProducts(orders) :
        SlotRow(schedule, x[1])[x[2]] = None =>
          DeliveredOfProduct(orders,
              decode_assignments(WithEntry(schedule, x[1], x[2], p), config, orders), p)
            >= DeliveredOfProduct(orders, calls[1].delivered, p)

\* C3 witness: an idle line-slot whose activation raises the delivered total of
\* a product that already has deliveries.
C3_Witness ==
  /\ Len(calls) = 1
  /\ \E x \in (0..(Len(schedule) - 1)) \X (1..config.lines) :
       \E p \in OrderedProducts(orders) :
         /\ SlotRow(schedule, x[1])[x[2]] = None
         /\ DeliveredOfProduct(orders, calls[1].delivered, p) > 0
         /\ DeliveredOfProduct(orders,
                decode_assignments(WithEntry(schedule, x[1], x[2], p), config, orders), p)
              > DeliveredOfProduct(orders, calls[1].delivered, p)

\* C4: two calls of decode_assignments on the same schedule, config and
\* orders return the same delivered mapping and leave the schedule and the
\* orders as they were; between orders of one product with equal due_day and
\* equal price the earlier one in the input list is served first.
C4_Idempotent ==
  /\ Len(calls) = 2 => calls[1].delivered = calls[2].delivered
  /\ orders = in0.orders
  /\ schedule = in0.schedule
  /\ \A c \in DOMAIN calls : \A k \in DOMAIN calls[c].trace :
       \A i, j \in DOMAIN orders :
         ( /\ i < j
           /\ orders[i].product = orders[j].product
           /\ orders[i].due_day = orders[j].due_day
           /\ orders[i].unit_price = orders[j].unit_price
           /\ calls[c].trace[k].taken[j] > 0 )
         => \/ day_of_slot(k - 1) < available_from_day(orders[i])
            \/ calls[c].trace[k].remaining[i] = 0

\* C4 witness: after two calls, with two tied orders of which the second got
\* units in a slot where the first was available and took units too.
C4_Witness ==
  /\ Len(calls) = 2
  /\ \E k \in DOMAIN calls[2].trace : \E i, j \in DOMAIN orders :
       /\ i < j
       /\ orders[i].product = orders[j].product
       /\ orders[i].due_day = orders[j].due_day
       /\ orders[i].unit_price = orders[j].unit_price
       /\ calls[2].trace[k].taken[i] > 0
       /\ calls[2].trace[k].taken[j] > 0

\* ------------------------------------------------------------ genetic algorithm
\* A schedule is a list of rows and every row is a list of its own.  The
\* heap keeps them apart: ga.lists[id] is the schedule object id, a sequence
\* that names, for every slot k, the row object ga.rows[k][n] it holds there.
\* Two schedules that hold the same row object share its content.
ListIds == 1..4

RowIds == 1..4

GaSlots == SLOTS_PER_DAY

\* the content of a schedule object
Content(rows, lst) == [k \in 1..Len(lst) |-> rows[k][lst[k]]]

\* an in-place write of the content sch through the rows of the schedule lst
WriteBack(rows, lst, sch) ==
  [k \in DOMAIN rows |->
     IF k \in DOMAIN lst THEN [rows[k] EXCEPT ![lst[k]] = sch[k]] ELSE rows[k]]

\* random_schedule draws every entry on its own; the model starts from the
\* schedules with at most one active line-slot (idle needs allow_idle).
RandomSchedules(slots, cfg) ==
  IF cfg.allow_idle
    THEN UNION {{ScheduleOf(slots, cfg.lines, f) : f \in [P -> ProductIds]} :
                  P \in SubsetsUpTo((1..slots) \X (1..cfg.lines), 1)}
    ELSE {[k \in 1..slots |-> [l \in 1..cfg.lines |-> p]] : p \in ProductIds}

\* The random choices of crossover: the cut point of the fallback for
\* schedules of at most 3 slots (days = max(1, slots // 6) is 1 there, so the
\* point is randint(1, slots - 1)), or the window.
CrossoverChoices(slots) ==
  IF slots <= 3
    THEN {[kind |-> "point", point |-> pt] : pt \in 1..(slots - 1)}
    ELSE {[kind |-> "window", win_len |-> w, start |-> st] :
            w \in {2, 3}, st \in 0..(slots - 2)} \ 
         {[kind |-> "window", win_len |-> 3, start |-> slots - 2]}

\* a crossover whose second child takes the window of the first parent one
\* slot late
crossoverShifted(parent1, parent2, c) ==
  IF c.kind = "point"
    THEN << SubSeq(parent1, 1, c.point) \o SubSeq(parent2, c.point + 1, Len(parent2)),
            SubSeq(parent2, 1, c.point) \o SubSeq(parent1, c.point + 1, Len(parent1)) >>
    ELSE << SubSeq(parent1, 1, c.start)
              \o SubSeq(parent2, c.start + 1, c.start + c.win_len)
              \o SubSeq(parent1, c.start + c.win_len + 1, Len(parent1)),
            SubSeq(parent2, 1, c.start + 1)
              \o SubSeq(parent1, c.start + 2, c.start + c.win_len)
              \o SubSeq(parent2, c.start + c.win_len + 1, Len(parent2)) >>

\* crossover(parent1, parent2): list slices and concatenations, which make
\* new lists that hold the rows of the parents.
crossover(parent1, parent2, c) ==
  IF c.kind = "point"
    THEN << SubSeq(parent1, 1, c.point) \o SubSeq(parent2, c.point + 1, Len(parent2)),
            SubSeq(parent2, 1, c.point) \o SubSeq(parent1, c.point + 1, Len(parent1)) >>
    ELSE << SubSeq(parent1, 1, c.start)
              \o SubSeq(parent2, c.start + 1, c.start + c.win_len)
              \o SubSeq(parent1, c.start + c.win_len + 1, Len(parent1)),
            SubSeq(parent2, 1, c.start)
              \o SubSeq(parent1, c.start + 1, c.start + c.win_len)
              \o SubSeq(parent2, c.start + c.win_len + 1, Len(parent2)) >>

\* The random events of one call of mutate.  An entry event rewrites line l
\* of slot s (0-based): "idle" (only with allow_idle), "flip" to product p, or
\* "swap" with line j.  A night event idles the active line i of a slot whose
\* wage multiplier is at least 1.35 (only with allow_idle).
MutationEvents(sch, cfg) ==
  {[kind |-> "none"]}
    \cup {[kind |-> "idle", s |-> s, l |-> l] :
            s \in {x \in 0..(Len(sch) - 1) : cfg.allow_idle}, l \in 1..cfg.lines}
    \cup {[kind |-> "flip", s |-> s, l |-> l, p |-> p] :
            s \in 0..(Len(sch) - 1), l \in 1..cfg.lines, p \in ProductIds}
    \cup {[kind |-> "swap", s |-> s, l |-> l, j |-> j] :
            s \in 0..(Len(sch) - 1), l \in 1..cfg.lines, j \in 1..cfg.lines}
    \cup {[kind |-> "night", s |-> s, i |-> i] :
            s \in {x \in 0..(Len(sch) - 1) :
                     /\ cfg.wage_multiplier_per_slot[slot_in_day(x) + 1] >= 135
                     /\ cfg.allow_idle},
            i \in 1..cfg.lines}

\* mutate(schedule, config, pm) with the one random event e
mutate(sch, cfg, e) ==
  IF e.kind = "idle" THEN [sch EXCEPT ![e.s + 1][e.l] = None]
  ELSE IF e.kind = "flip" THEN [sch EXCEPT ![e.s + 1][e.l] = e.p]
  ELSE IF e.kind = "swap"
    THEN [sch EXCEPT ![e.s + 1] =
            [@ EXCEPT ![e.l] = sch[e.s + 1][e.j], ![e.j] = sch[e.s + 1][e.l]]]
  ELSE IF e.kind = "night" /\ sch[e.s + 1][e.i] # None
    THEN [sch EXCEPT ![e.s + 1][e.i] = None]
  ELSE sch

\* _product_urgency: the earliest due day of the products that have orders
HasOrders(ords, p) == \E i \in DOMAIN ords : ords[i].product = p

EarliestDue(ords, p) == MinOf({ords[i].due_day : i \in {j \in DOMAIN ords : ords[j].product = p}})

\* the coins thrown for every product that has orders, however soon it is due
RepairCoinsAnyDue(sch, cfg, ords) ==
  {x \in (0..(Len(sch) - 1)) \X (1..cfg.lines) :
     /\ cfg.wage_multiplier_per_slot[slot_in_day(x[1]) + 1] >= 135
     /\ SlotRow(sch, x[1])[x[2]] # None
     /\ HasOrders(ords, SlotRow(sch, x[1])[x[2]])}

\* The line-slots repair_schedule idles with probability 0.3.
RepairCoins(sch, cfg, ords) ==
  {x \in (0..(Len(sch) - 1)) \X (1..cfg.lines) :
     /\ cfg.wage_multiplier_per_slot[slot_in_day(x[1]) + 1] >= 135
     /\ SlotRow(sch, x[1])[x[2]] # None
     /\ HasOrders(ords, SlotRow(sch, x[1])[x[2]])
     /\ day_of_slot(x[1]) + 2 < EarliestDue(ords, SlotRow(sch, x[1])[x[2]])}

\* repair_schedule(schedule, config, orders), the coins of drop falling below 0.3
repair_schedule(sch, cfg, ords, drop) ==
  [k \in DOMAIN sch |-> [l \in DOMAIN sch[k] |->
     IF cfg.wage_multiplier_per_slot[slot_in_day(k - 1) + 1] < 135 THEN sch[k][l]
     ELSE IF sch[k][l] = None THEN None
     ELSE IF ~HasOrders(ords, sch[k][l]) THEN None
     ELSE IF <<k - 1, l>> \in drop THEN None
     ELSE sch[k][l]]]

\* the first index of a maximum: max(range(n), key=...)
ArgMax(q) == MinOf({i \in DOMAIN q : \A j \in DOMAIN q : q[i] >= q[j]})

\* no entry under a key of eval_cache; an entry v is <<v>>
NoVal == <<>>

\* fitness(schedule): the value cached under id(schedule) if there is one,
\* otherwise the profit, which is then cached.  Returns <<value, cache>>.
fitness(rows, lists, cache, id) ==
  IF cache[id] # NoVal THEN <<cache[id][1], cache>>
  ELSE LET v == profit_of(Content(rows, lists[id]), config, orders)
       IN  <<v, [cache EXCEPT ![id] = <<v>>]>>

\* fitnesses = [fitness(ind) for ind in population].  Returns <<values, cache>>.
RECURSIVE FitnessAll(_, _, _, _, _)
FitnessAll(rows, lists, cache, pop, k) ==
  IF k > Len(pop) THEN <<(<<>>), cache>>
  ELSE LET f == fitness(rows, lists, cache, pop[k])
           rest == FitnessAll(rows, lists, f[2], pop, k + 1)
       IN  <<(<<f[1]>> \o rest[1]), rest[2]>>

\* the fitness function applied to the individuals as they are
TrueFitnesses(rows, lists, pop) ==
  [k \in DOMAIN pop |-> profit_of(Content(rows, lists[pop[k]]), config, orders)]

\* The objects that are alive: the population, the new population, the last
\* children and the best.
LiveLists(g) ==
  {g.population[k] : k \in DOMAIN g.population}
    \cup {g.new_pop[k] : k \in DOMAIN g.new_pop}
    \cup {g.kids[k] : k \in DOMAIN g.kids} \cup {g.best}

\* Unreachable objects are freed: a dead list is <<>>, a dead row is idle.
Collect(rows, lists, live) ==
  [rows |-> [k \in DOMAIN rows |-> [n \in RowIds |->
               IF \E id \in live : lists[id][k] = n THEN rows[k][n]
               ELSE [l \in 1..config.lines |-> None]]],
   lists |-> [id \in ListIds |-> IF id \in live THEN lists[id] ELSE <<>>]]

\* The id of a new list: the first id never used, or the id of a freed list.
NewIds(g) ==
  LET live == LiveLists(g)
      used == {id \in ListIds : g.eval_cache[id] # NoVal} \cup live
      never == ListIds \ used
  IN  (IF never = {} THEN {} ELSE {MinOf(never)}) \cup (used \ live)

\* the n-th row id that no live list holds in slot k
FreeRow(g, k, n) ==
  LET free == RowIds \ {g.lists[id][k] : id \in LiveLists(g)}
  IN  IF n = 1 THEN MinOf(free) ELSE MinOf(free \ {MinOf(free)})

\* The random population <<a, b>> as objects: lists 1 and 2 of rows 1 and 2.
GaHeap(a, b) ==
  [rows |-> [k \in 1..Len(a) |-> [n \in RowIds |->
               IF n = 1 THEN a[k] ELSE IF n = 2 THEN b[k]
               ELSE [l \in 1..config.lines |-> None]]],
   lists |-> [id \in ListIds |-> IF id \in {1, 2} THEN [k \in 1..Len(a) |-> id] ELSE <<>>]]

EmptyCache == [id \in ListIds |-> NoVal]

\* run_ga up to the generation loop (ga.py 153-159); f is the result of the
\* initial evaluation of the population.
GaStart(heap, population, f, generations) ==
  LET best_idx == ArgMax(f[1])
      best == population[best_idx]
  IN  [pc |-> "loop", rows |-> heap.rows, lists |-> heap.lists,
       population |-> population,
       eval_cache |-> f[2], fitnesses |-> f[1],
       best |-> best, best_fit |-> f[1][best_idx],
       best_eval |-> evaluate_schedule(Content(heap.rows, heap.lists[best]), config, orders),
       generations |-> generations, gen |-> 0,
       new_pop |-> <<best>>, kids |-> <<>>,
       gen_best |-> f[1][best_idx], prev_gen_best |-> f[1][best_idx]]

\* The children of the branch without crossover, [list(map(list, p))]: new
\* lists of new rows.
DeepCopyRefs(g, n) == [k \in 1..GaSlots |-> FreeRow(g, k, n)]

DeepCopyRows(g, parent1, parent2) ==
  [k \in DOMAIN g.rows |->
     [g.rows[k] EXCEPT ![FreeRow(g, k, 1)] = g.rows[k][parent1[k]],
                       ![FreeRow(g, k, 2)] = g.rows[k][parent2[k]]]]

\* One iteration of the while loop of run_ga (ga.py 166-182): two
\* tournaments (any index can win: the three draws can all be that index),
\* crossover or copy, mutate and repair_schedule on both children, extend.
\* At most one mutation event fires in the iteration.
Breed ==
  /\ ga.pc = "loop"
  /\ ga.gen < ga.generations
  /\ Len(ga.new_pop) < Len(ga.population)
  /\ \E i1, i2 \in DOMAIN ga.population :
     \E c1id \in NewIds(ga) :
     \E c2id \in NewIds([ga EXCEPT !.kids = Append(@, c1id)]) :
     \E x \in CrossoverChoices(GaSlots) \cup {[kind |-> "copy"]} :
     \E p1 \in {ga.lists[ga.population[i1]]} :
     \E p2 \in {ga.lists[ga.population[i2]]} :
     \E refs \in {IF x.kind = "copy"
                    THEN <<DeepCopyRefs(ga, 1), DeepCopyRefs(ga, 2)>>
                    ELSE crossover(p1, p2, x)} :
     \E rows1 \in {IF x.kind = "copy" THEN DeepCopyRows(ga, p1, p2) ELSE ga.rows} :
     \E e1 \in MutationEvents(Content(rows1, refs[1]), config) :
     \E rows2 \in {WriteBack(rows1, refs[1], mutate(Content(rows1, refs[1]), config, e1))} :
     \E e2 \in {e \in MutationEvents(Content(rows2, refs[2]), config) :
                  e1.kind = "none" \/ e.kind = "none"} :
     \E rows3 \in {WriteBack(rows2, refs[2], mutate(Content(rows2, refs[2]), config, e2))} :
     \E d1 \in SUBSET RepairCoins(Content(rows3, refs[1]), config, orders) :
     \E rows4 \in {WriteBack(rows3, refs[1],
                     repair_schedule(Content(rows3, refs[1]), config, orders, d1))} :
     \E d2 \in SUBSET RepairCoins(Content(rows4, refs[2]), config, orders) :
     \E rows5 \in {WriteBack(rows4, refs[2],
                     repair_schedule(Content(rows4, refs[2]), config, orders, d2))} :
     \E g2 \in {[ga EXCEPT !.new_pop = @ \o <<c1id, c2id>>, !.kids = <<c1id, c2id>>]} :
     \E heap \in {Collect(rows5, [ga.lists EXCEPT ![c1id] = refs[1], ![c2id] = refs[2]],
                          LiveLists(g2))} :
       ga' = [g2 EXCEPT !.rows = heap.rows, !.lists = heap.lists]
  /\ UNCHANGED <<config, orders, schedule, in0, calls, res, ls, pso, drv>>

\* The end of a generation (ga.py 183-189): the new population replaces the
\* old one, is evaluated through the cache, and the best is updated.
NextGeneration ==
  /\ ga.pc = "loop"
  /\ ga.gen < ga.generations
  /\ Len(ga.new_pop) >= Len(ga.population)
  /\ \E population \in {SubSeq(ga.new_pop, 1, Len(ga.population))} :
     \E f \in {FitnessAll(ga.rows, ga.lists, ga.eval_cache, population, 1)} :
     \E true \in {TrueFitnesses(ga.rows, ga.lists, population)} :
     \E b_idx \in {ArgMax(f[1])} :
     \E best \in {IF f[1][b_idx] > ga.best_fit THEN population[b_idx] ELSE ga.best} :
     \E g2 \in {[ga EXCEPT !.population = population, !.fitnesses = f[1],
                           !.eval_cache = f[2],
                           !.best = best,
                           !.best_fit = IF f[1][b_idx] > @ THEN f[1][b_idx] ELSE @,
                           !.best_eval =
                              IF f[1][b_idx] > ga.best_fit
                                THEN evaluate_schedule(Content(ga.rows, ga.lists[best]),
                                                       config, orders)
                                ELSE @,
                           !.gen = @ + 1,
                           !.new_pop = <<best>>,
                           !.prev_gen_best = ga.gen_best,
                           !.gen_best = MaxOf({true[k] : k \in DOMAIN population})]} :
     \E heap \in {Collect(ga.rows, ga.lists, LiveLists(g2))} :
       ga' = [g2 EXCEPT !.rows = heap.rows, !.lists = heap.lists]
  /\ UNCHANGED <<config, orders, schedule, in0, calls, res, ls, pso, drv>>

\* return best, best_eval (ga.py 191)
GaReturn ==
  /\ ga.pc = "loop"
  /\ ga.gen = ga.generations
  /\ ga' = [ga EXCEPT !.pc = "done"]
  /\ UNCHANGED <<config, orders, schedule, in0, calls, res, ls, pso, drv>>

GaConfig == [BaseConfig EXCEPT !.lines = 1]

\* One order of product 1, due on day 1 or on day 3; product 2 has no orders.
GaOrderLists ==
  {<<[product |-> 1, qty |-> 2, unit_price |-> 4, arrival_day |-> 0,
      arrival_slot_index |-> 0, due_day |-> d, delivered |-> 0]>> : d \in {1, 3}}

\* The initial individuals: random schedules whose active entry, if any, is
\* in the first slot or in the first night slot.
GaSeeds ==
  {s \in RandomSchedules(GaSlots, GaConfig) :
     \A k \in 1..GaSlots : k \notin {1, 4} => \A l \in DOMAIN s[k] : s[k][l] = None}

InitGA ==
  /\ config = GaConfig
  /\ orders \in GaOrderLists
  /\ schedule = <<>>
  /\ in0 = [orders |-> orders, schedule |-> schedule]
  /\ calls = <<>>
  /\ res = NoRes
  /\ ls = LsIdle
  /\ pso = PsoIdle
  /\ drv = DrvIdle
  /\ \E a, b \in GaSeeds : \E n \in {0, 1} :
     \E heap \in {GaHeap(a, b)} :
     \E f \in {FitnessAll(heap.rows, heap.lists, EmptyCache, <<1, 2>>, 1)} :
       ga = GaStart(heap, <<1, 2>>, f, n)

NextGA == Breed \/ NextGeneration \/ GaReturn

SpecGA == InitGA /\ [][NextGA]_vars

(***************************************************************************)
(* Claims C5 - C7: the genetic algorithm                                   *)
(***************************************************************************)

\* C5: GA elitism.  The best fitness among the individuals of a generation's
\* population, the fitness function applied to them as they are when the
\* population is formed, is never worse than the best fitness of the
\* generation before.  (Stated as the claim has it; the code violates it.)
C5_Elitism == ga.pc # "idle" => ga.gen_best >= ga.prev_gen_best

\* C6: no aliasing between parents and children.  After an iteration of the
\* breeding loop the two children hold no slot row of an individual of the
\* population, and the contents of every individual of the population and
\* of the elite are what they were before the iteration.  (Stated as the
\* claim has it; the code violates it.)
C6_NoAliasing ==
  [][(ga.pc = "loop" /\ ga'.pc = "loop" /\ ga'.gen = ga.gen) =>
       /\ \A c \in DOMAIN ga'.kids : \A i \in DOMAIN ga.population :
          \A k \in 1..GaSlots :
            ga'.lists[ga'.kids[c]][k] # ga'.lists[ga.population[i]][k]
       /\ \A id \in {ga.population[i] : i \in DOMAIN ga.population} \cup {ga.best} :
            Content(ga'.rows, ga'.lists[id]) = Content(ga.rows, ga.lists[id])]_vars

\* C7: run_ga returns the best schedule with its own evaluation: at the
\* return the EvaluationResult equals evaluate_schedule of the returned
\* schedule as it is then.  (Stated as the claim has it; the code violates it.)
C7_ReturnsOwnEvaluation ==
  ga.pc = "done" =>
    ga.best_eval = evaluate_schedule(Content(ga.rows, ga.lists[ga.best]), config, orders)

(***************************************************************************)
(* Local search: the neighbourhoods of vns.py, vns_improve and run_sa      *)
(***************************************************************************)

MaxRounds == 2

MaxAttempts == 2

MaxMoves == 2

LsSlots == 3

ObjIds == 1..4

\* swap the entries of line l (1-based) in slots s and t (0-based)
SwapLine(sch, s, t, l) ==
  [k \in DOMAIN sch |-> [j \in DOMAIN sch[k] |->
     IF j = l /\ k = s + 1 THEN sch[t + 1][l]
     ELSE IF j = l /\ k = t + 1 THEN sch[s + 1][l]
     ELSE sch[k][j]]]

\* The schedules _neighbor_swap_adjacent can return for a non-empty schedule:
\* random line l and slot s, the neighbour slot t.
neighbor_swap_adjacent(sch, cfg) ==
  LET slots == Len(sch)
  IN  IF slots = 1 THEN {sch}
      ELSE {SwapLine(sch, c[2], c[3], c[1]) :
              c \in {x \in (1..cfg.lines) \X (0..(slots - 1)) \X (0..(slots - 1)) :
                       x[3] \in (IF x[2] = 0 THEN {1}
                                 ELSE IF x[2] = slots - 1 THEN {slots - 2}
                                 ELSE {x[2] + 1, x[2] - 1})}}

\* urgency.get(pid, 10**9)
NoUrgency == 1000000000

Urgency(ords, pid) == IF HasOrders(ords, pid) THEN EarliestDue(ords, pid) ELSE NoUrgency

\* the least urgency value itself instead of the element that has it
MostUrgentDue(seq, ords) == MinOf({Urgency(ords, seq[i]) : i \in DOMAIN seq})

\* min(seq, key=urgency): the first element of the least urgency value
MostUrgent(seq, ords) ==
  seq[MinOf({i \in DOMAIN seq :
               \A j \in DOMAIN seq : Urgency(ords, seq[i]) <= Urgency(ords, seq[j])})]

IsActive(p) == p # None

\* The schedules _neighbor_cross_line_reassign can return for a non-empty
\* schedule: random slot s and line l.
neighbor_cross_line_reassign(sch, cfg, ords) ==
  {[sch EXCEPT ![c[1]][c[2]] =
      LET present == SelectSeq(sch[c[1]], IsActive)
          all_p == [i \in DOMAIN cfg.products |-> cfg.products[i].id]
      IN  IF present # <<>> THEN MostUrgent(present, ords) ELSE MostUrgent(all_p, ords)] :
     c \in (1..Len(sch)) \X (1..cfg.lines)}

\* The slots t that _neighbor_block_shift swaps slot s with (s itself: no swap).
BlockShiftTargets(cfg, s) ==
  LET w == cfg.wage_multiplier_per_slot
      candidates == {t \in 0..(s - 1) : w[slot_in_day(t) + 1] < w[slot_in_day(s) + 1]}
      day_start == day_of_slot(s) * Len(w)
  IN  IF candidates # {} THEN candidates
      ELSE IF s > day_start THEN {s - 1} ELSE {s}

\* The schedules _neighbor_block_shift can return for a non-empty schedule.
neighbor_block_shift(sch, cfg) ==
  {SwapLine(sch, c[2], c[3], c[1]) :
     c \in {x \in (1..cfg.lines) \X (0..(Len(sch) - 1)) \X (0..(Len(sch) - 1)) :
              x[3] \in BlockShiftTargets(cfg, x[2])}}

\* neighborhoods[n - 1](sch): the contents the n-th neighbourhood can return
NeighborMoves(sch, cfg, ords, n) ==
  IF sch = <<>> THEN {sch}
  ELSE IF n = 1 THEN neighbor_swap_adjacent(sch, cfg)
  ELSE IF n = 2 THEN neighbor_cross_line_reassign(sch, cfg, ords)
  ELSE neighbor_block_shift(sch, cfg)

\* a neighbourhood that works on the schedule it is given
NeighborTargetInPlace(heap, src) == src

\* The object a neighbourhood returns: the schedule itself if it is empty
\* ("if not schedule: return schedule"), otherwise a new deepcopy.
NeighborTarget(heap, src) ==
  IF heap.objs[src] = <<>> THEN src ELSE MinOf(ObjIds \ heap.alloc)

\* the heap after the neighbourhood has returned the object tgt of content c
HeapWith(heap, tgt, c) ==
  [objs |-> [heap.objs EXCEPT ![tgt] = c], alloc |-> heap.alloc \cup {tgt}]

\* unreferenced objects are freed
Keep(heap, refs) ==
  [objs |-> [id \in ObjIds |-> IF id \in refs THEN heap.objs[id] ELSE <<>>],
   alloc |-> refs]

\* The caller's schedule is object 1; deepcopy(schedule) is object 2.
LsHeap(sch) ==
  [objs |-> [id \in ObjIds |-> IF id \in {1, 2} THEN sch ELSE <<>>], alloc |-> {1, 2}]

\* "if cand_eval.profit > best_profit" accepting worse candidates instead
VnsAcceptWorse(cand_profit, best_profit) == cand_profit < best_profit

\* if cand_eval.profit > best_profit
VnsAccept(cand_profit, best_profit) == cand_profit > best_profit

\* vns_improve up to the loop (vns.py 108-116)
VnsCall ==
  /\ ls.pc = "idle"
  /\ \E rounds \in 0..MaxRounds, attempts \in 0..MaxAttempts :
       ls' = [pc |-> "run", alg |-> "vns", heap |-> LsHeap(schedule), schedule |-> 1,
              best_sched |-> 2, best_profit |-> profit_of(schedule, config, orders),
              rounds |-> rounds, attempts_per_neigh |-> attempts,
              r |-> 0, n |-> 1, a |-> 0, stopped |-> FALSE, evals |-> 0,
              improving |-> FALSE]
  /\ UNCHANGED <<config, orders, schedule, in0, calls, res, ga, pso, drv>>

\* One attempt (vns.py 122-128): a candidate of neighbourhood n of best_sched
\* is evaluated; an improvement is kept, and the two breaks and the end of the
\* round lead to the first neighbourhood of the next round.  evals counts
\* the candidates evaluated so far, improving tells whether the last one had a
\* greater profit than the best.
VnsAttempt ==
  /\ ls.pc = "run" /\ ls.alg = "vns"
  /\ ~ls.stopped /\ ls.r < ls.rounds /\ ls.n <= 3 /\ ls.a < ls.attempts_per_neigh
  /\ \E c \in NeighborMoves(ls.heap.objs[ls.best_sched], config, orders, ls.n) :
     \E cand \in {NeighborTarget(ls.heap, ls.best_sched)} :
     \E heap \in {HeapWith(ls.heap, cand, c)} :
     \E cand_profit \in {profit_of(heap.objs[cand], config, orders)} :
       IF VnsAccept(cand_profit, ls.best_profit)
         THEN ls' = [ls EXCEPT !.heap = Keep(heap, {ls.schedule, cand}),
                               !.best_sched = cand, !.best_profit = cand_profit,
                               !.r = @ + 1, !.n = 1, !.a = 0, !.evals = @ + 1,
                               !.improving = cand_profit > ls.best_profit]
         ELSE ls' = [ls EXCEPT !.heap = Keep(heap, {ls.schedule, ls.best_sched}),
                               !.a = @ + 1, !.evals = @ + 1,
                               !.improving = cand_profit > ls.best_profit]
  /\ UNCHANGED <<config, orders, schedule, in0, calls, res, ga, pso, drv>>

\* the attempts of a neighbourhood are used up: the next neighbourhood
VnsNextNeigh ==
  /\ ls.pc = "run" /\ ls.alg = "vns"
  /\ ~ls.stopped /\ ls.r < ls.rounds /\ ls.n <= 3 /\ ls.a >= ls.attempts_per_neigh
  /\ ls' = [ls EXCEPT !.n = @ + 1, !.a = 0]
  /\ UNCHANGED <<config, orders, schedule, in0, calls, res, ga, pso, drv>>

\* a stop before the last neighbourhood has been tried
VnsStopEarly ==
  /\ ls.pc = "run" /\ ls.alg = "vns"
  /\ ~ls.stopped /\ ls.r < ls.rounds /\ ls.n > 1
  /\ ls' = [ls EXCEPT !.stopped = TRUE]
  /\ UNCHANGED <<config, orders, schedule, in0, calls, res, ga, pso, drv>>

\* no neighbourhood improved in this round: "if not improved: break"
VnsStop ==
  /\ ls.pc = "run" /\ ls.alg = "vns"
  /\ ~ls.stopped /\ ls.r < ls.rounds /\ ls.n > 3
  /\ ls' = [ls EXCEPT !.stopped = TRUE]
  /\ UNCHANGED <<config, orders, schedule, in0, calls, res, ga, pso, drv>>

\* return best_sched, best_profit
VnsReturn ==
  /\ ls.pc = "run" /\ ls.alg = "vns"
  /\ ls.stopped \/ ls.r >= ls.rounds
  /\ ls' = [ls EXCEPT !.pc = "done"]
  /\ UNCHANGED <<config, orders, schedule, in0, calls, res, ga, pso, drv>>

\* "if cand_profit > best_profit" never taken
SaBestUpdateNever(cand_profit, best_profit) == FALSE

\* if cand_profit > best_profit
SaBestUpdate(cand_profit, best_profit) == cand_profit > best_profit

\* run_sa up to the loops (sa.py 52-66): current is object 2, best object 3.
\* The temperature only sets the probability of accepting a worse candidate,
\* and _auto_initial_temp works on deep copies; neither is part of the state.
SaCall ==
  /\ ls.pc = "idle"
  /\ \E temps \in 0..MaxMoves, moves_per_temp \in 0..MaxMoves :
       /\ temps * moves_per_temp <= MaxMoves
       /\ ls' = [pc |-> "run", alg |-> "sa",
                 heap |-> HeapWith(LsHeap(schedule), 3, schedule), schedule |-> 1,
                 current |-> 2, curr_profit |-> profit_of(schedule, config, orders),
                 best |-> 3, best_profit |-> profit_of(schedule, config, orders),
                 accepted |-> 0, total |-> 0,
                 temps |-> temps, moves_per_temp |-> moves_per_temp, t |-> 0, m |-> 0,
                 max_accepted |-> profit_of(schedule, config, orders),
                 last |-> <<>>, accept_rate |-> <<>>]
  /\ UNCHANGED <<config, orders, schedule, in0, calls, res, ga, pso, drv>>

\* One move (sa.py 70-88), and after the last move of a temperature level
\* the cooling (sa.py 89).  coin is the outcome of random.random() < p.
SaMove ==
  /\ ls.pc = "run" /\ ls.alg = "sa"
  /\ ls.t < ls.temps /\ ls.m < ls.moves_per_temp
  /\ \E n \in 1..3 :
     \E c \in NeighborMoves(ls.heap.objs[ls.current], config, orders, n) :
     \E coin \in BOOLEAN :
     \E cand \in {NeighborTarget(ls.heap, ls.current)} :
     \E heap \in {HeapWith(ls.heap, cand, c)} :
     \E cand_profit \in {profit_of(heap.objs[cand], config, orders)} :
     \E delta \in {cand_profit - ls.curr_profit} :
     \E accept \in {delta >= 0 \/ coin} :
     \E newbest \in {delta >= 0 /\ SaBestUpdate(cand_profit, ls.best_profit)} :
     \E g \in {[ls EXCEPT !.total = @ + 1,
                          !.accepted = IF accept THEN @ + 1 ELSE @,
                          !.current = IF accept THEN cand ELSE @,
                          !.curr_profit = IF accept THEN cand_profit ELSE @,
                          !.best = IF newbest THEN cand ELSE @,
                          !.best_profit = IF newbest THEN cand_profit ELSE @,
                          !.m = IF ls.m + 1 = ls.moves_per_temp THEN 0 ELSE @ + 1,
                          !.t = IF ls.m + 1 = ls.moves_per_temp THEN @ + 1 ELSE @,
                          !.max_accepted = IF accept /\ cand_profit > @ THEN cand_profit ELSE @,
                          !.last = <<[not_worse |-> delta >= 0, accepted |-> accept]>>]} :
       ls' = [g EXCEPT !.heap = Keep(heap, {g.schedule, g.current, g.best})]
  /\ UNCHANGED <<config, orders, schedule, in0, calls, res, ga, pso, drv>>

\* return best, best_profit, accept_rate
SaReturn ==
  /\ ls.pc = "run" /\ ls.alg = "sa"
  /\ ls.t >= ls.temps \/ ls.moves_per_temp = 0
  /\ ls' = [ls EXCEPT !.pc = "done", !.accept_rate = Rate(ls.accepted, ls.total)]
  /\ UNCHANGED <<config, orders, schedule, in0, calls, res, ga, pso, drv>>

\* The orders of the local search runs: one order of product 1, alone or with
\* an order of product 2 that arrives later.
LsOrderLists ==
  LET o1 == [product |-> 1, qty |-> 2, unit_price |-> 4, arrival_day |-> 0,
             arrival_slot_index |-> 0, due_day |-> 1, delivered |-> 0]
      o2 == [product |-> 2, qty |-> 1, unit_price |-> 4, arrival_day |-> 0,
             arrival_slot_index |-> 1, due_day |-> 2, delivered |-> 0]
  IN  {<<o1>>, <<o1, o2>>}

\* The schedules given to the local search: the empty schedule and the
\* schedules of LsSlots slots with at most one active line-slot.
LsInputs(cfg) ==
  {<<>>} \cup
  UNION {{ScheduleOf(LsSlots, cfg.lines, f) : f \in [P -> ProductIds]} :
           P \in SubsetsUpTo((1..LsSlots) \X (1..cfg.lines), 1)}

InitLS ==
  /\ config = BaseConfig
  /\ orders \in LsOrderLists
  /\ schedule \in LsInputs(config)
  /\ in0 = [orders |-> orders, schedule |-> schedule]
  /\ calls = <<>>
  /\ res = NoRes
  /\ ga = GaIdle
  /\ ls = LsIdle
  /\ pso = PsoIdle
  /\ drv = DrvIdle

NextLS ==
  \/ VnsCall \/ VnsAttempt \/ VnsNextNeigh \/ VnsStop \/ VnsReturn
  \/ SaCall \/ SaMove \/ SaReturn

SpecLS == InitLS /\ [][NextLS]_vars

(***************************************************************************)
(* Claims C8 - C10: vns_improve and run_sa                                 *)
(***************************************************************************)

\* C8: VNS convergence.  The profit vns_improve returns is at least the
\* evaluator's profit of the input schedule, for every rounds and
\* attempts_per_neigh, and the tracked best profit never decreases.
C8_VnsNeverWorse ==
  [][(ls'.pc # "idle" /\ ls'.alg = "vns") =>
       /\ ls.pc = "run" => ls'.best_profit >= ls.best_profit
       /\ ls'.pc = "done" =>
            ls'.best_profit >= evaluate_schedule(in0.schedule, config, in0.orders).profit]_vars

\* a call of vns_improve has returned after an accepted move, with a profit
\* above the profit of its input
C8_Witness ==
  /\ ls.pc = "done" /\ ls.alg = "vns" /\ ls.r >= 1
  /\ ls.best_profit > profit_of(in0.schedule, config, in0.orders)

\* C9: run_sa tracks the best-seen state apart from the current state.  At
\* every step best_profit >= curr_profit, best_profit is the maximum profit
\* over the initial schedule and the candidates accepted so far, a candidate
\* with delta >= 0 is accepted, and the profit returned is not below the
\* profit of the input schedule.
C9_SaBestTracked ==
  (ls.pc # "idle" /\ ls.alg = "sa") =>
    /\ ls.best_profit >= ls.curr_profit
    /\ ls.best_profit = ls.max_accepted
    /\ ls.last # <<>> => (ls.last[1].not_worse => ls.last[1].accepted)
    /\ ls.pc = "done" => ls.best_profit >= profit_of(in0.schedule, config, in0.orders)

\* run_sa has returned after it accepted an improving and then a worsening
\* candidate: the current state is worse than the best
C9_Witness ==
  /\ ls.pc = "done" /\ ls.alg = "sa"
  /\ ls.curr_profit < ls.best_profit
  /\ ls.best_profit > profit_of(in0.schedule, config, in0.orders)
  /\ ls.last[1].accepted /\ ~ls.last[1].not_worse

\* the schedule a finished call returns
Returned == ls.heap.objs[IF ls.alg = "vns" THEN ls.best_sched ELSE ls.best]

\* C10: for vns_improve and run_sa the profit returned is
\* evaluate_schedule(returned schedule).profit, and the schedule passed in by
\* the caller is not modified by the call.
C10_ProfitOfReturned ==
  /\ ls.pc # "idle" => ls.heap.objs[ls.schedule] = in0.schedule
  /\ ls.pc = "done" =>
       ls.best_profit = evaluate_schedule(Returned, config, orders).profit

\* a call has returned a schedule that is not the content of the input,
\* after at least one candidate that was not kept as the best
C10_Witness ==
  /\ ls.pc = "done"
  /\ Returned # in0.schedule
  /\ \/ ls.alg = "vns" /\ ls.a >= 1
     \/ ls.alg = "sa" /\ ls.heap.objs[ls.current] # Returned

(***************************************************************************)
(* Claims C11 - C16: the rates, the scenario example, lookup failures,     *)
(* the penalty and late deliveries                                         *)
(***************************************************************************)

\* a rate <<numerator, denominator>> is a number between 0 and 1
InUnit(x) == x[2] > 0 /\ 0 <= x[1] /\ x[1] <= x[2]

\* C11: on-time/penalty complement.  For a non-empty order list
\* on_time_rate + penalty_rate = 1 with both rates in [0,1]; for an empty
\* order list both rates are 0, well defined, and penalty and revenue are 0.
C11_RatesComplement ==
  res # NoRes =>
    LET on == res[1].on_time_rate
        pen == res[1].penalty_rate
    IN  /\ InUnit(on) /\ InUnit(pen)
        /\ orders # <<>> => on[1] * pen[2] + pen[1] * on[2] = on[2] * pen[2]
        /\ orders = <<>> =>
             on[1] = 0 /\ pen[1] = 0 /\ res[1].penalty = 0 /\ res[1].total_revenue = 0

\* an evaluation of two orders, one on time and one not
C11_Witness ==
  /\ res # NoRes /\ Len(orders) = 2
  /\ res[1].on_time_rate = <<1, 2>> /\ res[1].penalty_rate = <<1, 2>>

\* The scenario: one line, one product of 10 pieces/hour and unit cost 30,
\* a wage of 100 per line-slot, all multipliers 1.0.
ScenarioConfig ==
  [lines |-> 1,
   products |-> << [id |-> 1, rate10 |-> 100, unit_cost |-> 30] >>,
   wage_per_slot_per_line |-> 100,
   wage_multiplier_per_slot |-> <<100, 100, 100, 100, 100, 100>>,
   allow_idle |-> TRUE]

ScenarioOrders ==
  << [product |-> 1, qty |-> 40, unit_price |-> 50, arrival_day |-> 0,
      arrival_slot_index |-> 0, due_day |-> 1, delivered |-> 0] >>

\* the schedule that runs the product in slot 0 only
ScenarioSchedule ==
  [k \in 1..SLOTS_PER_DAY |-> [l \in 1..1 |-> IF k = 1 THEN 1 ELSE None]]

\* The calls of Spec on the scenario, for every one-line schedule of one day.
InitScenario ==
  /\ config = ScenarioConfig
  /\ orders = ScenarioOrders
  /\ schedule \in [1..SLOTS_PER_DAY -> [1..1 -> {None, 1}]]
  /\ in0 = [orders |-> orders, schedule |-> schedule]
  /\ calls = <<>>
  /\ res = NoRes
  /\ ga = GaIdle
  /\ ls = LsIdle
  /\ pso = PsoIdle
  /\ drv = DrvIdle

SpecScenario == InitScenario /\ [][Next]_vars

\* C12: the scenario example.  The schedule that runs the product in slot 0
\* only evaluates to delivered 40, revenue 2000, production cost 1200, wage
\* cost 100, penalty 0, profit 700, utilization 1/6 and on_time_rate 1
\* (money in hundredths).
C12_Scenario ==
  (res # NoRes /\ schedule = ScenarioSchedule) =>
    /\ res[1].delivered_per_order = <<40>>
    /\ res[1].total_revenue = 200000
    /\ res[1].production_cost = 120000
    /\ res[1].wage_cost = 10000
    /\ res[1].penalty = 0
    /\ res[1].profit = 70000
    /\ res[1].utilization_rate[1] * 6 = res[1].utilization_rate[2]
    /\ res[1].on_time_rate[1] = res[1].on_time_rate[2]

\* the scenario schedule has been evaluated
C12_Witness == res # NoRes /\ schedule = ScenarioSchedule /\ config = ScenarioConfig

(***************************************************************************)
(* Lookup failures: calls that may raise KeyError, and compute_soft_fitness *)
(***************************************************************************)

\* the for loop of Config.product_by_id finds a product of that id
KnownProduct(cfg, pid) == \E i \in DOMAIN cfg.products : cfg.products[i].id = pid

\* The lookups config.product_by_id(l_choice) of the slot loops run over every
\* entry that is not None, in slot order; the first unknown id raises.
LookupFailure(sch, cfg) ==
  \E k \in DOMAIN sch : \E l \in DOMAIN sch[k] :
    sch[k][l] # None /\ ~KnownProduct(cfg, sch[k][l])

\* the outcome of a call: the exception propagates, or a value is returned
Raise == [raised |-> TRUE, value |-> <<>>]

Return(v) == [raised |-> FALSE, value |-> <<v>>]

\* the schedule with its unknown entries taken as idle
WithoutUnknown(sch, cfg) ==
  [k \in DOMAIN sch |-> [l \in DOMAIN sch[k] |->
     IF sch[k][l] # None /\ ~KnownProduct(cfg, sch[k][l]) THEN None ELSE sch[k][l]]]

\* decode_assignments skipping the entries it cannot look up
DecodeSkipsUnknown(sch, cfg, ords) ==
  Return(decode_assignments(WithoutUnknown(sch, cfg), cfg, ords))

\* decode_assignments(schedule, config, orders) as a call: KeyError from
\* edd_decoder.py line 37, or the delivered units
Call_decode_assignments(sch, cfg, ords) ==
  IF LookupFailure(sch, cfg) THEN Raise ELSE Return(decode_assignments(sch, cfg, ords))

\* evaluate_schedule as a call: its first statement is the call of
\* decode_assignments, whose KeyError it lets through
Call_evaluate_schedule(sch, cfg, ords) ==
  IF LookupFailure(sch, cfg) THEN Raise ELSE Return(evaluate_schedule(sch, cfg, ords))

\* soft term 1 with no pressure until the day before the due day
soft_deadline_pressure_late(sch, cfg, ords) ==
  SumSeq([k \in DOMAIN sch |-> SumSeq([l \in DOMAIN sch[k] |->
    IF sch[k][l] = None THEN 0
    ELSE LET cap == slot_capacity(product_by_id(cfg, sch[k][l]))
             days_to_due == EarliestDue(ords, sch[k][l]) - day_of_slot(k - 1)
         IN  IF ~HasOrders(ords, sch[k][l]) THEN cap
             ELSE IF days_to_due >= 2 THEN 0
             ELSE IF days_to_due >= 1 THEN 2 * (1 + (3 - days_to_due)) * cap
             ELSE 2 * (5 + (1 - days_to_due) * 2) * cap])])

\* soft term 1 (fitness.py 174-194), in halves
soft_deadline_pressure(sch, cfg, ords) ==
  SumSeq([k \in DOMAIN sch |-> SumSeq([l \in DOMAIN sch[k] |->
    IF sch[k][l] = None THEN 0
    ELSE LET cap == slot_capacity(product_by_id(cfg, sch[k][l]))
             days_to_due == EarliestDue(ords, sch[k][l]) - day_of_slot(k - 1)
         IN  IF ~HasOrders(ords, sch[k][l]) THEN cap
             ELSE IF days_to_due >= 3 THEN 0
             ELSE IF days_to_due >= 1 THEN 2 * (1 + (3 - days_to_due)) * cap
             ELSE 2 * (5 + (1 - days_to_due) * 2) * cap])])

\* soft term 2 (fitness.py 197-202), in hundredths
late_units_soft(sch, cfg, ords) ==
  LET delivered_bd == delivered_before_due_pass(sch, cfg, ords)
  IN  SumSeq([i \in DOMAIN ords |->
                MaxOf({0, ords[i].qty - delivered_bd[i]}) * ords[i].unit_price])

\* soft term 3 (fitness.py 205-210), in hundredths
high_wage_soft(sch, cfg, gamma10) ==
  IF gamma10 > 0
    THEN SumSeq([k \in DOMAIN sch |->
           cfg.wage_per_slot_per_line
             * MaxOf({0, cfg.wage_multiplier_per_slot[slot_in_day(k - 1) + 1] - 100})
             * NumActive(sch[k])])
    ELSE 0

\* compute_soft_fitness, in thousandths; the weights alpha_deadline,
\* beta_late_units and gamma_high_wage are given in tenths
compute_soft_fitness(sch, cfg, ords, alpha10, beta10, gamma10) ==
  10 * evaluate_schedule(sch, cfg, ords).profit
    - (50 * alpha10 * soft_deadline_pressure(sch, cfg, ords)
         + beta10 * late_units_soft(sch, cfg, ords)
         + gamma10 * high_wage_soft(sch, cfg, gamma10))

\* compute_soft_fitness as a call: it starts with evaluate_schedule
Call_compute_soft_fitness(sch, cfg, ords, alpha10, beta10, gamma10) ==
  IF LookupFailure(sch, cfg) THEN Raise
  ELSE Return(compute_soft_fitness(sch, cfg, ords, alpha10, beta10, gamma10))

\* a product id that Config does not have
UnknownId == 1 + MaxOf(ProductIds)

\* Schedules of one day and a slot, with at most two active line-slots that
\* run a product of Config or the unknown product.
LookupSchedules(lines) ==
  UNION {{ScheduleOf(SLOTS_PER_DAY + 1, lines, f) : f \in [P -> ProductIds \cup {UnknownId}]} :
           P \in SubsetsUpTo((1..(SLOTS_PER_DAY + 1)) \X (1..lines), 2)}

\* Orders of product 1 and of the unknown product.
LookupOrderLists ==
  LET o(p) == [product |-> p, qty |-> 2, unit_price |-> 4, arrival_day |-> 0,
               arrival_slot_index |-> 0, due_day |-> 1, delivered |-> 0]
  IN  {<<>>, <<o(1)>>, <<o(UnknownId)>>, <<o(1), o(UnknownId)>>, <<o(UnknownId), o(1)>>}

InitLookup ==
  /\ config = BaseConfig
  /\ schedule \in LookupSchedules(config.lines)
  /\ orders \in LookupOrderLists
  /\ in0 = [orders |-> orders, schedule |-> schedule]
  /\ calls = <<>>
  /\ res = NoRes
  /\ ga = GaIdle
  /\ ls = LsIdle
  /\ pso = PsoIdle
  /\ drv = DrvIdle

Called(fn) == \E i \in DOMAIN calls : calls[i].fn = fn

\* a caller calls decode_assignments and keeps the outcome
CallDecode ==
  /\ ~Called("decode_assignments")
  /\ calls' = Append(calls, [fn |-> "decode_assignments",
                             out |-> Call_decode_assignments(schedule, config, orders)])
  /\ UNCHANGED <<config, orders, schedule, in0, res, ga, ls, pso, drv>>

\* a caller calls evaluate_schedule and keeps the outcome
CallEvaluate ==
  /\ ~Called("evaluate_schedule")
  /\ calls' = Append(calls, [fn |-> "evaluate_schedule",
                             out |-> Call_evaluate_schedule(schedule, config, orders)])
  /\ UNCHANGED <<config, orders, schedule, in0, res, ga, ls, pso, drv>>

\* a caller calls compute_soft_fitness, with the default weights and with
\* or without the high-wage term, and keeps the outcome
CallSoftFitness ==
  /\ ~Called("compute_soft_fitness")
  /\ \E gamma10 \in {0, 5} :
       calls' = Append(calls, [fn |-> "compute_soft_fitness",
                               out |-> Call_compute_soft_fitness(schedule, config, orders,
                                                                 15, 8, gamma10)])
  /\ UNCHANGED <<config, orders, schedule, in0, res, ga, ls, pso, drv>>

NextLookup == CallDecode \/ CallEvaluate \/ CallSoftFitness

SpecLookup == InitLookup /\ [][NextLookup]_vars

\* some entry of the schedule is a product id that Config does not have
HasUnknownEntry ==
  \E k \in DOMAIN schedule : \E l \in DOMAIN schedule[k] :
    schedule[k][l] \notin {None} \cup {config.products[i].id : i \in DOMAIN config.products}

\* C13: a schedule entry of a product id that is not in Config makes
\* evaluate_schedule, decode_assignments and compute_soft_fitness fail with a
\* lookup failure that reaches the caller, with no result, wherever the entry is.
C13_UnknownEntryRaises ==
  HasUnknownEntry =>
    \A i \in DOMAIN calls : calls[i].out.raised /\ calls[i].out.value = <<>>

\* the three functions have failed on a schedule whose only unknown entry is
\* in the last slot, after an entry of a known product
C13_Witness ==
  /\ Len(calls) = 3
  /\ \A i \in DOMAIN calls : calls[i].out.raised
  /\ schedule[Len(schedule)][2] = UnknownId
  /\ schedule[1][1] = 1

\* C14: an order of a product id that is not in Config makes
\* evaluate_schedule fail with a lookup failure, for every schedule.
\* (Stated as the claim has it; the code violates it.)
C14_UnknownOrderRaises ==
  (\E j \in DOMAIN orders : ~KnownProduct(config, orders[j].product)) =>
    \A i \in DOMAIN calls : calls[i].fn = "evaluate_schedule" => calls[i].out.raised

\* The units decode_assignments hands to order i in slots of the days in D.
TakenOnDays(i, D) ==
  SumFn([k \in DOMAIN calls[1].trace |-> calls[1].trace[k].taken[i]],
        {k \in DOMAIN calls[1].trace : day_of_slot(k - 1) \in D})

AllDays == 0..day_of_slot(Len(schedule))

\* the units order i gets before its due day, and on or after it
TakenBeforeDue(i) == TakenOnDays(i, {d \in AllDays : d < orders[i].due_day})

TakenLate(i) == TakenOnDays(i, {d \in AllDays : d >= orders[i].due_day})

\* C15: the penalty is the sum, over exactly the orders whose units delivered
\* before the due day are less than qty, of 0.1 * qty * unit_price (10 in
\* hundredths): the amount does not depend on the size of the shortfall, and
\* an order fully delivered before its due day adds 0.
C15_FlatPenalty ==
  res # NoRes =>
    res[1].penalty =
      SumFn([i \in DOMAIN orders |-> 10 * orders[i].qty * orders[i].unit_price],
            {i \in DOMAIN orders : TakenBeforeDue(i) < orders[i].qty})

\* an order short of one unit only is charged in full, next to an order that
\* is fully delivered before its due day
C15_Witness ==
  /\ res # NoRes
  /\ \E i, j \in DOMAIN orders :
       /\ TakenBeforeDue(i) = orders[i].qty - 1 /\ TakenBeforeDue(i) > 0
       /\ TakenBeforeDue(j) = orders[j].qty
       /\ res[1].penalty = 10 * orders[i].qty * orders[i].unit_price

\* C16: late delivery counts toward revenue but not toward on-time
\* satisfaction.  Units handed to an order on a day >= its due_day add
\* unit_price each to revenue but are not delivered before due: the orders on
\* time are those whose units of earlier days reach qty, so an order
\* completed only with late units is credited in full, not on time, and
\* penalised.
C16_LateDelivery ==
  res # NoRes =>
    /\ res[1].total_revenue =
         SumFn([i \in DOMAIN orders |->
                  100 * orders[i].unit_price * (TakenBeforeDue(i) + TakenLate(i))],
               DOMAIN orders)
    /\ \A i \in DOMAIN orders : TakenBeforeDue(i) + TakenLate(i) <= orders[i].qty
    /\ res[1].on_time_rate =
         Rate(Cardinality({i \in DOMAIN orders : TakenBeforeDue(i) >= orders[i].qty}),
              Len(orders))
    /\ \A i \in DOMAIN orders :
         (TakenLate(i) > 0 /\ TakenBeforeDue(i) + TakenLate(i) = orders[i].qty) =>
           /\ res[1].delivered_per_order[i] = orders[i].qty
           /\ res[1].on_time_rate[1] < Len(orders)
           /\ res[1].penalty >= 10 * orders[i].qty * orders[i].unit_price

\* an order completed with late units only: full revenue, not on time
C16_Witness ==
  /\ res # NoRes /\ Len(orders) = 1
  /\ TakenBeforeDue(1) = 0 /\ TakenLate(1) = orders[1].qty
  /\ res[1].total_revenue = 100 * orders[1].unit_price * orders[1].qty
  /\ res[1].on_time_rate[1] = 0

(***************************************************************************)
(* Claim C20: the EDD greedy rule of decode_assignments                    *)
(***************************************************************************)
\* order j comes before order i of the same product in the EDD ordering:
\* due_day ascending, unit_price - unit_cost descending, input order
EddBefore(j, i) ==
  LET margin(n) == orders[n].unit_price - product_by_id(config, orders[n].product).unit_cost
  IN  /\ orders[j].product = orders[i].product
      /\ \/ orders[j].due_day < orders[i].due_day
         \/ orders[j].due_day = orders[i].due_day /\ margin(j) > margin(i)
         \/ orders[j].due_day = orders[i].due_day /\ margin(j) = margin(i) /\ j < i

\* order i receives units in slot k (1-based) of the first decode call
TakesIn(i, k) == calls[1].trace[k].taken[i] > 0

\* C20: the allocator follows the EDD greedy rule in every slot.  An order
\* receives units only of its own product, produced in that slot, and never
\* on a day before its availability day; and it receives units in a slot
\* only if every order of the same product that is available on that day and
\* precedes it in the ordering (due_day ascending, unit_price - unit_cost
\* descending, input order) is fully satisfied at the end of that slot.
C20_EddGreedy ==
  calls # <<>> =>
    \A k \in DOMAIN calls[1].trace : \A i \in DOMAIN orders :
      TakesIn(i, k) =>
        /\ \E l \in 1..config.lines : schedule[k][l] = orders[i].product
        /\ available_from_day(orders[i]) <= day_of_slot(k - 1)
        /\ \A j \in DOMAIN orders :
             (EddBefore(j, i) /\ available_from_day(orders[j]) <= day_of_slot(k - 1))
               => calls[1].trace[k].remaining[j] = 0

\* In one slot an order is served after an earlier-due order of lower margin
\* has been completed, and in some slot an order is served while an order
\* that precedes it is skipped because it has not arrived.
C20_Witness ==
  /\ calls # <<>>
  /\ \E k \in DOMAIN calls[1].trace : \E i, j \in DOMAIN orders :
       /\ TakesIn(i, k) /\ TakesIn(j, k) /\ EddBefore(j, i)
       /\ orders[j].unit_price < orders[i].unit_price
  /\ \E k \in DOMAIN calls[1].trace : \E i, j \in DOMAIN orders :
       /\ TakesIn(i, k) /\ EddBefore(j, i)
       /\ available_from_day(orders[j]) > day_of_slot(k - 1)
       /\ calls[1].trace[k].remaining[j] > 0

(***************************************************************************)
(* PSO decoding: decode_particle_to_schedule (pso.py 28-117)               *)
(*                                                                         *)
(* A particle holds one weight per order, a float of [0, 1]; the model     *)
(* holds it in tenths.  Priority scores and slot attractiveness are        *)
(* fractions <<numerator, denominator>> with a positive denominator and    *)
(* are compared exactly.                                                   *)
(***************************************************************************)
\* a > b for fractions of positive denominators
FracGreater(a, b) == a[1] * b[2] > b[1] * a[2]

\* list.sort(key, reverse=True) of the elements of S, score[x] the key: the
\* greater score first, and equal scores in the order of the elements
SortedDescending(S, score) ==
  LET before(y, x) == \/ FracGreater(score[y], score[x])
                      \/ ~FracGreater(score[x], score[y]) /\ y < x
      pos == [x \in S |-> 1 + Cardinality({y \in S : before(y, x)})]
  IN  [r \in 1..Cardinality(S) |-> CHOOSE x \in S : pos[x] = r]

\* priority_score = particle[i] * urgency * profit_density (pso.py 51-53)
priority_score(particle, cfg, o, i) ==
  << particle[i] * (o.unit_price - product_by_id(cfg, o.product).unit_cost),
     10 * MaxOf({1, o.due_day}) * o.qty >>

\* order_priorities after the sort (pso.py 48-57), as order positions
order_priorities(particle, cfg, ords) ==
  SortedDescending(DOMAIN ords,
                   [i \in DOMAIN ords |-> priority_score(particle, cfg, ords[i], i)])

\* attractiveness = (1.0 / wage_mult) * (1.0 + time_to_due * 0.1) (pso.py 79-83)
attractiveness(cfg, o, s) ==
  << 10 * (10 + (o.due_day - day_of_slot(s))),
     cfg.wage_multiplier_per_slot[slot_in_day(s) + 1] >>

\* the days an order may be produced on (pso.py 73-76)
InWindow(o, day) == available_from_day(o) <= day /\ day < o.due_day

\* best_slots after the sort (pso.py 70-87), slots 0-based
best_slots(cfg, o, slots) ==
  LET S == {s \in 0..(slots - 1) : InWindow(o, day_of_slot(s))}
  IN  SortedDescending(S, [s \in S |-> attractiveness(cfg, o, s)])

\* any line can take the order
LineUsableAlways(current_product, p) == TRUE

\* if current_product is None or current_product == order.product
LineUsable(current_product, p) == current_product = None \/ current_product = p

\* The loop over the lines of one slot (pso.py 96-115).  st holds the
\* schedule, slot_capacity_used, still_need, and booked: remaining_demand
\* counted upwards, the units assigned to each order.
RECURSIVE AssignLines(_, _, _, _, _, _)
AssignLines(cfg, ords, i, s, l, st) ==
  IF l > cfg.lines \/ st.still_need <= 0 THEN st
  ELSE LET current_product == st.schedule[s + 1][l]
           line_capacity == slot_capacity(product_by_id(cfg, ords[i].product))
           available_capacity == line_capacity - st.slot_capacity_used[s + 1][l]
           assign_amount == Min2(st.still_need, available_capacity)
       IN  IF LineUsable(current_product, ords[i].product) /\ available_capacity > 0
             THEN AssignLines(cfg, ords, i, s, l + 1,
                    [schedule |->
                       IF current_product = None
                         THEN Upd(st.schedule, s + 1,
                                  Upd(st.schedule[s + 1], l, ords[i].product))
                         ELSE st.schedule,
                     slot_capacity_used |->
                       Upd(st.slot_capacity_used, s + 1,
                           Upd(st.slot_capacity_used[s + 1], l,
                               st.slot_capacity_used[s + 1][l] + assign_amount)),
                     still_need |-> st.still_need - assign_amount,
                     booked |-> Upd(st.booked, i, st.booked[i] + assign_amount)])
             ELSE AssignLines(cfg, ords, i, s, l + 1, st)

\* the loop over best_slots (pso.py 91-115)
RECURSIVE AssignSlots(_, _, _, _, _, _)
AssignSlots(cfg, ords, i, q, k, st) ==
  IF k > Len(q) \/ st.still_need <= 0 THEN st
  ELSE AssignSlots(cfg, ords, i, q, k + 1, AssignLines(cfg, ords, i, q[k], 1, st))

\* One iteration of the loop over the orders (pso.py 64-115).
AssignOrder(cfg, ords, slots, i, st) ==
  LET remaining == ords[i].qty - st.booked[i]
  IN  IF remaining <= 0 THEN st
      ELSE AssignSlots(cfg, ords, i, best_slots(cfg, ords[i], slots), 1,
                       [st EXCEPT !.still_need = remaining])

\* The loop over the orders: the states after each order, the first state
\* being the one before the loop (pso.py 44-45, 60-61).
RECURSIVE PsoTrace(_, _, _, _, _, _)
PsoTrace(cfg, ords, slots, q, k, st) ==
  IF k > Len(q) THEN <<st>>
  ELSE <<st>> \o PsoTrace(cfg, ords, slots, q, k + 1, AssignOrder(cfg, ords, slots, q[k], st))

PsoDecodeTrace(particle, cfg, ords, horizon_days) ==
  LET slots == horizon_days * SLOTS_PER_DAY
  IN  PsoTrace(cfg, ords, slots, order_priorities(particle, cfg, ords), 1,
               [schedule |-> IdleSchedule(slots, cfg.lines),
                slot_capacity_used |-> [s \in 1..slots |-> [l \in 1..cfg.lines |-> 0]],
                still_need |-> 0,
                booked |-> ZeroPerOrder(ords)])

\* decode_particle_to_schedule(particle, config, orders, horizon_days)
decode_particle_to_schedule(particle, cfg, ords, horizon_days) ==
  LET trace == PsoDecodeTrace(particle, cfg, ords, horizon_days)
  IN  trace[Len(trace)].schedule

\* The weights of a particle: 0.0, 0.5 and 1.0, in tenths.
ParticleWeights == {0, 5, 10}

Particles(num_orders) == [1..num_orders -> ParticleWeights]

\* the horizons of the PSO decoding calls, in days
MaxHorizon == 2

\* A call of decode_particle_to_schedule(particle, config, orders, horizon_days).
PsoDecode ==
  /\ pso.pc = "idle"
  /\ \E particle \in Particles(Len(orders)), horizon_days \in 1..MaxHorizon :
     \E trace \in {PsoDecodeTrace(particle, config, orders, horizon_days)} :
       /\ pso' = [pc |-> "done", particle |-> particle, horizon_days |-> horizon_days,
                  trace |-> trace]
       /\ schedule' = trace[Len(trace)].schedule
  /\ UNCHANGED <<config, orders, in0, calls, res, ga, ls, drv>>

InitPSO ==
  /\ config = BaseConfig
  /\ orders \in OrderLists
  /\ schedule = <<>>
  /\ in0 = [orders |-> orders, schedule |-> schedule]
  /\ calls = <<>>
  /\ res = NoRes
  /\ ga = GaIdle
  /\ ls = LsIdle
  /\ pso = PsoIdle
  /\ drv = DrvIdle

NextPSO == PsoDecode

SpecPSO == InitPSO /\ [][NextPSO]_vars

(***************************************************************************)
(* Claim C19: PSO decoding respects windows and capacity                   *)
(***************************************************************************)
\* the state of the decoding when it returns
PsoFinal == pso.trace[Len(pso.trace)]

\* the line-slots of the returned schedule, slots 1-based
PsoLineSlots == (1..Len(schedule)) \X (1..config.lines)

\* C19: in the schedule decode_particle_to_schedule returns, every active
\* line-slot running product p lies on a day d for which some order of p has
\* available_from_day <= d < due_day; the units booked on a line-slot never
\* exceed the slot capacity of the product on that line (an idle line has
\* none); no order is booked for more than its qty; and a line-slot that was
\* assigned a product keeps it until the end of the decoding.
C19_PsoWindowsCapacity ==
  pso.pc = "done" =>
    /\ schedule = PsoFinal.schedule
    /\ \A x \in PsoLineSlots :
         LET p == schedule[x[1]][x[2]]
             d == day_of_slot(x[1] - 1)
             booked == PsoFinal.slot_capacity_used[x[1]][x[2]]
         IN  IF p = None THEN booked = 0
             ELSE /\ \E i \in DOMAIN orders :
                       /\ orders[i].product = p
                       /\ available_from_day(orders[i]) <= d /\ d < orders[i].due_day
                  /\ booked <= slot_capacity(product_by_id(config, p))
    /\ \A i \in DOMAIN orders : PsoFinal.booked[i] <= orders[i].qty
    /\ \A k \in 1..(Len(pso.trace) - 1) : \A x \in PsoLineSlots :
         pso.trace[k].schedule[x[1]][x[2]] # None =>
           pso.trace[k + 1].schedule[x[1]][x[2]] = pso.trace[k].schedule[x[1]][x[2]]

\* Two orders of different products want the same slot and end on its two
\* lines, one of them booked to the capacity of its line and on a second slot.
C19_Witness ==
  /\ pso.pc = "done" /\ Len(orders) = 2
  /\ orders[1].product # orders[2].product
  /\ \E s \in 1..Len(schedule) :
       /\ schedule[s][1] # None /\ schedule[s][2] # None
       /\ schedule[s][1] # schedule[s][2]
  /\ \A i \in DOMAIN orders : PsoFinal.booked[i] = orders[i].qty
  /\ Cardinality({x \in PsoLineSlots : schedule[x[1]][x[2]] # None}) >= 3

(***************************************************************************)
(* Degenerate inputs of the search components: no orders, or a schedule    *)
(* of at most one slot.  A call either returns or raises; random.randint   *)
(* and random.choice raise on an empty range, min() on an empty list, a    *)
(* list index beyond the list.                                             *)
(***************************************************************************)
\* config.wage_multiplier_per_slot[slot_in_day(s)] is beyond the list for a slot
WageIndexFails(sch, cfg) ==
  \E s \in 0..(Len(sch) - 1) : slot_in_day(s) + 1 > Len(cfg.wage_multiplier_per_slot)

\* crossover(parent1, parent2): the assert, then randint(1, slots - 1) of the
\* fallback or the window (ga.py 29-43)
Call_crossover(parent1, parent2) ==
  IF Len(parent1) # Len(parent2) \/ CrossoverChoices(Len(parent1)) = {}
    THEN {Raise}
    ELSE {Return(crossover(parent1, parent2, c)) : c \in CrossoverChoices(Len(parent1))}

\* mutate(schedule, config, pm): random.choice(product_ids), randint(0, L - 1)
\* and the wage multiplier of every slot (ga.py 55-79)
Call_mutate(sch, cfg) ==
  (IF WageIndexFails(sch, cfg) \/ (sch # <<>> /\ cfg.lines > 0 /\ cfg.products = <<>>)
     THEN {Raise} ELSE {})
    \cup (IF WageIndexFails(sch, cfg) THEN {}
          ELSE {Return(mutate(sch, cfg, e)) : e \in MutationEvents(sch, cfg)})

\* repair_schedule(schedule, config, orders) (ga.py 101-121)
Call_repair_schedule(sch, cfg, ords) ==
  IF WageIndexFails(sch, cfg) THEN {Raise}
  ELSE {Return(repair_schedule(sch, cfg, ords, drop)) :
          drop \in SUBSET RepairCoins(sch, cfg, ords)}

\* The n-th neighbourhood raises: randint(0, config.lines - 1) without lines,
\* min(all_p) without products, or the wage multiplier of the slot (vns.py 18-93).
NeighborRaises(sch, cfg, n) ==
  /\ sch # <<>>
  /\ \/ cfg.lines < 1
     \/ n = 2 /\ cfg.products = <<>>
     \/ n = 3 /\ WageIndexFails(sch, cfg)

\* _neighbor_swap_adjacent, _neighbor_cross_line_reassign, _neighbor_block_shift
Call_neighbor(sch, cfg, ords, n) ==
  IF NeighborRaises(sch, cfg, n) THEN {Raise}
  ELSE {Return(c) : c \in NeighborMoves(sch, cfg, ords, n)}

\* decode_particle_to_schedule: product_by_id of every order and the
\* division by order.qty (pso.py 52), 1.0 / wage_mult (pso.py 83)
Call_decode_particle_to_schedule(particle, cfg, ords, horizon_days) ==
  IF \/ \E i \in DOMAIN ords : ~KnownProduct(cfg, ords[i].product) \/ ords[i].qty = 0
     \/ /\ ords # <<>>
        /\ WageIndexFails(IdleSchedule(horizon_days * SLOTS_PER_DAY, cfg.lines), cfg)
    THEN Raise
    ELSE Return(decode_particle_to_schedule(particle, cfg, ords, horizon_days))

\* the schedules of one slot
SingleSlotSchedules(cfg) ==
  {<<row>> : row \in [1..cfg.lines -> ProductIds \cup {None}]}

\* The degenerate inputs: no orders with a schedule of LsSlots slots or of
\* one slot, or any orders with a schedule of one slot.
DegenerateInputs(cfg) ==
  ({<<>>} \X ((LsInputs(cfg) \ {<<>>}) \cup SingleSlotSchedules(cfg)))
    \cup ((LsOrderLists \cup {<<>>}) \X SingleSlotSchedules(cfg))

InitDegenerate ==
  /\ config = BaseConfig
  /\ \E x \in DegenerateInputs(config) : orders = x[1] /\ schedule = x[2]
  /\ in0 = [orders |-> orders, schedule |-> schedule]
  /\ calls = <<>>
  /\ res = NoRes
  /\ ga = GaIdle
  /\ ls = LsIdle
  /\ pso = PsoIdle
  /\ drv = DrvIdle

\* One call of a component on the inputs, nothing else running.
CallOf(fn, outcomes) ==
  /\ calls = <<>> /\ ls = LsIdle
  /\ \E out \in outcomes : calls' = <<[fn |-> fn, out |-> out]>>
  /\ UNCHANGED <<config, orders, schedule, in0, res, ga, ls, pso, drv>>

CallCrossover ==
  \E parent2 \in {x[2] : x \in {y \in DegenerateInputs(config) : Len(y[2]) = Len(schedule)}} :
    CallOf("crossover", Call_crossover(schedule, parent2))

CallMutate == CallOf("mutate", Call_mutate(schedule, config))

CallRepair == CallOf("repair_schedule", Call_repair_schedule(schedule, config, orders))

NeighborNames ==
  <<"_neighbor_swap_adjacent", "_neighbor_cross_line_reassign", "_neighbor_block_shift">>

CallNeighbor ==
  \E n \in 1..3 : CallOf(NeighborNames[n], Call_neighbor(schedule, config, orders, n))

CallPsoDecode ==
  \E particle \in Particles(Len(orders)), horizon_days \in 0..1 :
    CallOf("decode_particle_to_schedule",
           {Call_decode_particle_to_schedule(particle, config, orders, horizon_days)})

\* vns_improve and run_sa on the inputs, step by step
CallLocalSearch == calls = <<>> /\ NextLS

NextDegenerate ==
  \/ CallCrossover \/ CallMutate \/ CallRepair \/ CallNeighbor \/ CallPsoDecode
  \/ CallLocalSearch

SpecDegenerate == InitDegenerate /\ [][NextDegenerate]_vars

(***************************************************************************)
(* Claim C17: degenerate inputs do not crash the search components         *)
(***************************************************************************)
\* the schedules a running local search evaluates and moves next
LsWorking ==
  IF ls.pc # "run" THEN {}
  ELSE {ls.heap.objs[IF ls.alg = "vns" THEN ls.best_sched ELSE ls.current]}

\* C17: with zero orders, or with a schedule of a single slot, GA crossover,
\* mutate and repair_schedule, the three neighbourhood moves, vns_improve,
\* run_sa and PSO decoding all complete without raising an error: no call
\* has raised, and no step of a running vns_improve or run_sa can raise in
\* its evaluation or in a neighbourhood move.
C17_DegenerateNoCrash ==
  /\ \A k \in DOMAIN calls : ~calls[k].out.raised
  /\ \A sch \in LsWorking :
       /\ ~LookupFailure(sch, config)
       /\ \A n \in 1..3 : ~NeighborRaises(sch, config, n)

(***************************************************************************)
(* The driver: main() of main.py (lines 109-181).  The variable schedule   *)
(* is best_schedule, drv.eval_result is eval_result.  The command line     *)
(* flags pso_enabled, local_search and sa_enabled are fixed for a run but  *)
(* each is read at one place only, where the model chooses its value.      *)
(***************************************************************************)
\* if args.pso_enabled: run_pso returns the decoding of its global best
\* position, some position of [0, 1]^n, and its evaluation (pso.py 248-251)
DrvRunPso ==
  /\ drv.pc = "primary" /\ ga = GaIdle
  /\ \E global_best_position \in Particles(Len(orders)) :
     \E best_schedule \in {decode_particle_to_schedule(global_best_position, config, orders,
                                                       GaSlots \div SLOTS_PER_DAY)} :
       /\ schedule' = best_schedule
       /\ drv' = [pc |-> "local_search",
                  eval_result |-> evaluate_schedule(best_schedule, config, orders)]
  /\ UNCHANGED <<config, orders, in0, calls, res, ga, ls, pso>>

\* else: run_ga, step by step
DrvRunGa == drv.pc = "primary" /\ NextGA

\* best_schedule, eval_result = run_ga(...): the list run_ga returns and its best_eval
DrvGaReturned ==
  /\ drv.pc = "primary" /\ ga.pc = "done"
  /\ schedule' = Content(ga.rows, ga.lists[ga.best])
  /\ drv' = [pc |-> "local_search", eval_result |-> ga.best_eval]
  /\ ga' = GaIdle
  /\ UNCHANGED <<config, orders, in0, calls, res, ls, pso>>

\* args.local_search is "none"
DrvNoLocalSearch ==
  /\ drv.pc = "local_search" /\ ls = LsIdle
  /\ drv' = [drv EXCEPT !.pc = "sa"]
  /\ UNCHANGED <<config, orders, schedule, in0, calls, res, ga, ls, pso>>

\* vns_improve(best_schedule, config, orders, ...), step by step
DrvVns ==
  /\ drv.pc = "local_search"
  /\ VnsCall \/ VnsAttempt \/ VnsNextNeigh \/ VnsStop \/ VnsReturn

\* "if improved_profit > before_profit" (main.py 146-153, 172-178): the
\* result of the stage is adopted and evaluated again, or dropped
DrvAdopt(stage, next) ==
  /\ drv.pc = stage /\ ls.pc = "done"
  /\ IF ls.best_profit > drv.eval_result.profit
       THEN /\ schedule' = Returned
            /\ drv' = [pc |-> next,
                       eval_result |-> evaluate_schedule(Returned, config, orders)]
       ELSE /\ schedule' = schedule
            /\ drv' = [drv EXCEPT !.pc = next]
  /\ ls' = LsIdle
  /\ UNCHANGED <<config, orders, in0, calls, res, ga, pso>>

DrvAfterVns == DrvAdopt("local_search", "sa")

\* args.sa_enabled is false
DrvNoSa ==
  /\ drv.pc = "sa" /\ ls = LsIdle
  /\ drv' = [drv EXCEPT !.pc = "emit"]
  /\ UNCHANGED <<config, orders, schedule, in0, calls, res, ga, ls, pso>>

\* run_sa(best_schedule, config, orders, ...), step by step
DrvSa ==
  /\ drv.pc = "sa"
  /\ SaCall \/ SaMove \/ SaReturn

DrvAfterSa == DrvAdopt("sa", "emit")

\* save_results(best_schedule, eval_result, args.out); print_summary(eval_result)
DrvEmit ==
  /\ drv.pc = "emit"
  /\ res' = <<drv.eval_result>>
  /\ drv' = [drv EXCEPT !.pc = "done"]
  /\ UNCHANGED <<config, orders, schedule, in0, calls, ga, ls, pso>>

\* A run starts with run_ga already past its first evaluation, or before run_pso.
InitDriver ==
  /\ config = GaConfig
  /\ orders \in GaOrderLists
  /\ schedule = <<>>
  /\ in0 = [orders |-> orders, schedule |-> schedule]
  /\ calls = <<>>
  /\ res = NoRes
  /\ ls = LsIdle
  /\ pso = PsoIdle
  /\ drv = [pc |-> "primary"]
  /\ \/ ga = GaIdle
     \/ \E a, b \in GaSeeds : \E n \in {0, 1} :
        \E heap \in {GaHeap(a, b)} :
        \E f \in {FitnessAll(heap.rows, heap.lists, EmptyCache, <<1, 2>>, 1)} :
          ga = GaStart(heap, <<1, 2>>, f, n)

NextDriver ==
  \/ DrvRunPso \/ DrvRunGa \/ DrvGaReturned
  \/ DrvNoLocalSearch \/ DrvVns \/ DrvAfterVns
  \/ DrvNoSa \/ DrvSa \/ DrvAfterSa
  \/ DrvEmit

SpecDriver == InitDriver /\ [][NextDriver]_vars

(***************************************************************************)
(* Claim C18: the driver emits the evaluation of the schedule it emits     *)
(***************************************************************************)
\* C18: at the end of a driver run (GA or PSO, then optional VNS, then
\* optional SA) the EvaluationResult that is emitted is the evaluation of
\* the schedule that is emitted, metrics = evaluate_schedule(final
\* schedule), whichever stages ran and whether or not their results were
\* adopted.
C18_EmitsEvaluationOfFinal ==
  drv.pc = "done" => res = <<evaluate_schedule(schedule, config, orders)>>

(***************************************************************************)
(* Claim C21: the second pass of the evaluator replays the allocator       *)
(***************************************************************************)
\* the second pass of evaluate_schedule on the caller's inputs, slot by slot
SecondPass ==
  DueTrace(config, orders, schedule, 0,
           [remaining |-> InitialRemaining(orders),
            before_due |-> ZeroPerOrder(orders),
            taken |-> ZeroPerOrder(orders)])

\* C21: the evaluator's second allocation pass replays the allocator
\* exactly.  In every slot each order consumes in the due-cutoff pass of
\* evaluate_schedule the units it consumes in decode_assignments; so for
\* every order qty - remaining after the second pass is the delivered total
\* of the first pass, and delivered-before-due <= delivered total.  The pass
\* of compute_soft_fitness gives the same delivered-before-due mapping, the
\* one the result's on-time count is made from.
C21_SecondPassReplays ==
  res # NoRes =>
    \A tr \in {SecondPass} :
      /\ Len(tr) = Len(calls[1].trace)
      /\ \A k \in DOMAIN tr : tr[k].taken = calls[1].trace[k].taken
      /\ \A i \in DOMAIN orders :
           LET remaining == IF tr = <<>> THEN orders[i].qty ELSE tr[Len(tr)].remaining[i]
               before_due == IF tr = <<>> THEN 0 ELSE tr[Len(tr)].before_due[i]
           IN  /\ orders[i].qty - remaining = calls[1].delivered[i]
               /\ before_due <= calls[1].delivered[i]
               /\ before_due = delivered_before_due_pass(schedule, config, orders)[i]
      /\ res[1].on_time_rate =
           Rate(Cardinality({i \in DOMAIN orders :
                               delivered_before_due_pass(schedule, config, orders)[i]
                                 >= orders[i].qty}),
                Len(orders))

\* two orders of one product are served in one slot of day 1, one of them
\* past its due day
C21_Witness ==
  /\ res # NoRes
  /\ \E k \in DOMAIN calls[1].trace : \E i, j \in DOMAIN orders :
       /\ i # j
       /\ calls[1].trace[k].taken[i] > 0 /\ calls[1].trace[k].taken[j] > 0
       /\ day_of_slot(k - 1) >= orders[i].due_day
       /\ day_of_slot(k - 1) < orders[j].due_day

(***************************************************************************)
(* Claim C22: control flow and termination of vns_improve                  *)
(***************************************************************************)
VnsRuns == ls.pc = "run" /\ ls.alg = "vns"

\* the bounds of a call of vns_improve, running or returned
VnsBounds ==
  (ls.pc # "idle" /\ ls.alg = "vns") =>
    /\ ls.n \in 1..4 /\ ls.a <= ls.attempts_per_neigh
    /\ ls.r <= ls.rounds
    /\ ls.evals <= ls.rounds * 3 * ls.attempts_per_neigh
    /\ (ls.pc = "done" => ls.stopped \/ ls.r = ls.rounds)

\* one step of a running call
VnsStepShape ==
  (VnsRuns /\ ls'.pc # "idle") =>
    /\ ls'.evals \in {ls.evals, ls.evals + 1}
    /\ ls'.evals = ls.evals + 1 =>
         /\ ls.n <= 3 /\ ls.a < ls.attempts_per_neigh /\ ~ls.stopped /\ ls.r < ls.rounds
         /\ IF ls'.improving
              THEN /\ ls'.best_profit > ls.best_profit
                   /\ ls'.r = ls.r + 1 /\ ls'.n = 1 /\ ls'.a = 0
              ELSE /\ ls'.best_profit = ls.best_profit
                   /\ ls'.heap.objs[ls'.best_sched] = ls.heap.objs[ls.best_sched]
                   /\ ls'.r = ls.r /\ ls'.n = ls.n /\ ls'.a = ls.a + 1
    /\ ls'.evals = ls.evals =>
         /\ ls'.best_profit = ls.best_profit /\ ls'.r = ls.r
         /\ ls'.n # ls.n => ls'.n = ls.n + 1 /\ ls.a = ls.attempts_per_neigh /\ ls'.a = 0
         /\ (ls'.stopped /\ ~ls.stopped) => ls.n = 4
         /\ (ls.n = 4 /\ ~ls.stopped /\ ls.r < ls.rounds) => ls'.stopped

\* A step of a running call returns, or stops the search, or moves
\* (round, neighbourhood, attempt) forward in the order of the loops.
VnsProgress ==
  (VnsRuns /\ ls'.pc # "idle") =>
    \/ ls'.pc = "done"
    \/ ls'.stopped /\ ~ls.stopped
    \/ ls'.r > ls.r
    \/ ls'.r = ls.r /\ ls'.n > ls.n
    \/ ls'.r = ls.r /\ ls'.n = ls.n /\ ls'.a > ls.a

\* A running call has a next step: it returns, stops, moves to the next
\* neighbourhood, or evaluates a candidate its neighbourhood produces.
VnsCanStep ==
  \/ ls.stopped \/ ls.r >= ls.rounds
  \/ ls.n > 3
  \/ ls.a >= ls.attempts_per_neigh
  \/ NeighborMoves(ls.heap.objs[ls.best_sched], config, orders, ls.n) # {}

\* C22: vns_improve tries the neighbourhoods in the order adjacent swap,
\* cross-line reassignment, block shift, with at most attempts_per_neigh
\* samples each; the first strictly improving candidate is accepted and the
\* search restarts from the first neighbourhood; the search stops as soon as
\* a full pass over the three neighbourhoods yields no improvement; the call
\* evaluates at most rounds * 3 * attempts_per_neigh candidates, accepts at
\* most rounds moves, and always returns: within these bounds every step
\* moves the call forward, and a running call always has a next step.
C22_VnsControlFlow ==
  /\ []VnsBounds
  /\ [][VnsStepShape]_vars
  /\ [][VnsProgress]_vars
  /\ [](VnsRuns => VnsCanStep)

\* a call that accepted one move, then found nothing in a full pass over the
\* three neighbourhoods, and returned
C22_Witness ==
  /\ ls.pc = "done" /\ ls.alg = "vns"
  /\ ls.r = 1 /\ ls.stopped /\ ls.attempts_per_neigh = MaxAttempts
  /\ ls.evals > 3 * ls.attempts_per_neigh

(***************************************************************************)
(* The operators on schedules, applied one after the other to a schedule   *)
(* that random_schedule or decode_particle_to_schedule made: crossover,    *)
(* mutate and repair_schedule of ga.py and the three neighbourhood moves   *)
(* of vns.py.  The variable schedule is the current schedule, in0 keeps    *)
(* where it came from, and calls holds the record of the last operation.   *)
(***************************************************************************)
\* the number of operations applied in a row
MaxOps == 2

OpsSlots == 1 * SLOTS_PER_DAY

NoIdleConfig == [BaseConfig EXCEPT !.allow_idle = FALSE]

\* random_schedule(1, cfg): the schedules taken as first schedule and as
\* second parent; with idle entries allowed, those whose active entry, if
\* any, is in the first slot or in the first night slot.
OpsSeeds(cfg) ==
  {s \in RandomSchedules(OpsSlots, cfg) :
     cfg.allow_idle =>
       \A k \in 1..OpsSlots : k \notin {1, 4} => \A l \in DOMAIN s[k] : s[k][l] = None}

InitOps ==
  /\ config \in {BaseConfig, NoIdleConfig}
  /\ orders \in GaOrderLists
  /\ \E src \in {"random_schedule", "decode_particle_to_schedule"} :
       /\ schedule \in
            IF src = "random_schedule" THEN OpsSeeds(config)
            ELSE {decode_particle_to_schedule(particle, config, orders, 1) :
                    particle \in Particles(Len(orders))}
       /\ in0 = [orders |-> orders, schedule |-> schedule, source |-> src]
  /\ calls = <<>>
  /\ res = NoRes
  /\ ga = GaIdle
  /\ ls = LsIdle
  /\ pso = PsoIdle
  /\ drv = DrvIdle

OpsDone == IF calls = <<>> THEN 0 ELSE calls[1].n

\* the operation fn has turned the current schedule into out
OpRecord(fn, out, info) ==
  /\ OpsDone < MaxOps
  /\ calls' = <<[fn |-> fn, n |-> OpsDone + 1, arg |-> schedule, out |-> out, info |-> info]>>
  /\ schedule' = out
  /\ UNCHANGED <<config, orders, in0, res, ga, ls, pso, drv>>

\* child1, child2 = crossover(schedule, parent2); either child is kept
OpCrossover ==
  \E parent2 \in OpsSeeds(config), c \in CrossoverChoices(Len(schedule)) :
  \E children \in {crossover(schedule, parent2, c)} :
  \E kept \in 1..2 :
    OpRecord("crossover", children[kept],
             [parent2 |-> parent2, child1 |-> children[1], child2 |-> children[2]])

\* mutate(schedule, config, pm)
OpMutate ==
  \E e \in MutationEvents(schedule, config) :
    OpRecord("mutate", mutate(schedule, config, e), <<>>)

\* repair_schedule(schedule, config, orders)
OpRepair ==
  \E drop \in SUBSET RepairCoins(schedule, config, orders) :
    OpRecord("repair_schedule", repair_schedule(schedule, config, orders, drop), <<>>)

\* _neighbor_swap_adjacent(schedule, config)
OpSwapAdjacent ==
  \E out \in neighbor_swap_adjacent(schedule, config) :
    OpRecord("_neighbor_swap_adjacent", out, <<>>)

\* _neighbor_cross_line_reassign(schedule, config, orders)
OpCrossLine ==
  \E out \in neighbor_cross_line_reassign(schedule, config, orders) :
    OpRecord("_neighbor_cross_line_reassign", out, <<>>)

\* _neighbor_block_shift(schedule, config): line l, slot s and the slot t it
\* swaps with (t = s: no swap)
OpBlockShift ==
  \E l \in 1..config.lines, s \in 0..(Len(schedule) - 1) :
  \E t \in BlockShiftTargets(config, s) :
    OpRecord("_neighbor_block_shift", SwapLine(schedule, s, t, l),
             [l |-> l, s |-> s, t |-> t])

NextOps ==
  \/ OpCrossover \/ OpMutate \/ OpRepair
  \/ OpSwapAdjacent \/ OpCrossLine \/ OpBlockShift

SpecOps == InitOps /\ [][NextOps]_vars

LastOp(fn) == calls # <<>> /\ calls[1].fn = fn

(***************************************************************************)
(* Claim C23: window crossover                                             *)
(***************************************************************************)
\* the slots k (1-based) of the window that starts at slot start (0-based)
Window(start, win_len) == (start + 1)..(start + win_len)

\* C23: window crossover on parents of equal length with more than 3 slots:
\* there is one contiguous window of 2 or 3 slots, inside the schedule, such
\* that child1 is parent1 outside the window and parent2 inside it, and
\* child2 is parent2 outside the window and parent1 inside it; both children
\* have the parents' length, and at every slot index the pair of child rows
\* is the pair of parent rows.
C23_WindowCrossover ==
  (LastOp("crossover") /\ Len(calls[1].arg) > 3
     /\ Len(calls[1].arg) = Len(calls[1].info.parent2)) =>
    LET parent1 == calls[1].arg
        parent2 == calls[1].info.parent2
        child1 == calls[1].info.child1
        child2 == calls[1].info.child2
        slots == Len(parent1)
    IN  /\ Len(child1) = slots /\ Len(child2) = slots
        /\ \E win_len \in {2, 3} : \E start \in 0..(slots - win_len) :
             \A k \in 1..slots :
               IF k \in Window(start, win_len)
                 THEN child1[k] = parent2[k] /\ child2[k] = parent1[k]
                 ELSE child1[k] = parent1[k] /\ child2[k] = parent2[k]
        /\ \A k \in 1..slots :
             \/ child1[k] = parent1[k] /\ child2[k] = parent2[k]
             \/ child1[k] = parent2[k] /\ child2[k] = parent1[k]

\* C23 witness: a crossover whose parents differ inside the window and
\* outside it, so that each child differs from both parents.
C23_Witness ==
  /\ LastOp("crossover")
  /\ calls[1].info.child1 \notin {calls[1].arg, calls[1].info.parent2}
  /\ calls[1].info.child2 \notin {calls[1].arg, calls[1].info.parent2}

(***************************************************************************)
(* Claim C24: repair_schedule only idles, and only in high-wage slots      *)
(***************************************************************************)
\* the wage multiplier (times 100) of the 1-based slot k
MultOfSlot(cfg, k) == cfg.wage_multiplier_per_slot[slot_in_day(k - 1) + 1]

\* C24: repair_schedule leaves every entry of a slot whose wage multiplier is
\* below 1.35 unchanged; an entry it changes was active and is idle
\* afterwards; it never idles an entry whose product's earliest due day is at
\* most 2 days after the slot's day; and afterwards no entry of a slot with
\* multiplier >= 1.35 references a product that has no orders.
C24_RepairOnlyIdles ==
  LastOp("repair_schedule") =>
    LET before == calls[1].arg
        after == calls[1].out
    IN  /\ DOMAIN after = DOMAIN before
        /\ \A k \in DOMAIN before :
             /\ DOMAIN after[k] = DOMAIN before[k]
             /\ MultOfSlot(config, k) < 135 => after[k] = before[k]
             /\ \A l \in DOMAIN before[k] :
                  /\ after[k][l] # before[k][l] =>
                       before[k][l] # None /\ after[k][l] = None
                  /\ ( /\ before[k][l] # None /\ after[k][l] = None
                       /\ HasOrders(orders, before[k][l]) )
                     => EarliestDue(orders, before[k][l]) > day_of_slot(k - 1) + 2
                  /\ (MultOfSlot(config, k) >= 135 /\ after[k][l] # None)
                     => HasOrders(orders, after[k][l])

\* C24 witness: a repair that idled an entry of a product without orders
\* and an entry of a product due more than 2 days later, and kept another
\* entry of that product in a high-wage slot.
C24_Witness ==
  /\ LastOp("repair_schedule")
  /\ \E k1, k2, k3 \in DOMAIN calls[1].arg : \E l1, l2, l3 \in 1..config.lines :
       /\ calls[1].arg[k1][l1] # None /\ ~HasOrders(orders, calls[1].arg[k1][l1])
       /\ calls[1].out[k1][l1] = None
       /\ calls[1].arg[k2][l2] # None /\ HasOrders(orders, calls[1].arg[k2][l2])
       /\ calls[1].out[k2][l2] = None
       /\ MultOfSlot(config, k3) >= 135
       /\ calls[1].out[k3][l3] = calls[1].arg[k2][l2]

(***************************************************************************)
(* Claim C25: block shift moves production to cheaper time                 *)
(***************************************************************************)
\* the slots before slot s (0-based) with a strictly lower wage multiplier
CheaperEarlier(cfg, s) ==
  {u \in 0..(s - 1) : MultOfSlot(cfg, u + 1) < MultOfSlot(cfg, s + 1)}

\* C25: block shift exchanges the entries of one line between the chosen
\* slot s and a target slot t < s and leaves all other entries unchanged;
\* whenever some earlier slot has a strictly lower wage multiplier than s,
\* t is such a slot and the wage cost of the result is not greater than the
\* wage cost of the input.  (A move that finds no target, s being the first
\* slot of its day with no cheaper slot before it, is not held against the
\* claim here.)
C25_BlockShiftCheaper ==
  LastOp("_neighbor_block_shift") =>
    LET s == calls[1].info.s
        t == calls[1].info.t
        l == calls[1].info.l
    IN  /\ calls[1].out = SwapLine(calls[1].arg, s, t, l)
        /\ t < s \/ (t = s /\ CheaperEarlier(config, s) = {}
                           /\ s = day_of_slot(s) * SLOTS_PER_DAY)
        /\ CheaperEarlier(config, s) # {} =>
             /\ t \in CheaperEarlier(config, s)
             /\ WageCost(config, calls[1].out) <= WageCost(config, calls[1].arg)

(***************************************************************************)
(* Claim C26: every operator keeps the schedule well-formed                *)
(***************************************************************************)
\* horizon_days * 6 slots, Config.lines entries in every slot, every entry
\* idle or the id of a product of the configuration
WellFormedSchedule(sch, cfg, horizon_days) ==
  /\ Len(sch) = horizon_days * SLOTS_PER_DAY
  /\ \A k \in DOMAIN sch :
       /\ Len(sch[k]) = cfg.lines
       /\ \A l \in DOMAIN sch[k] :
            sch[k][l] # None => \E i \in DOMAIN cfg.products : cfg.products[i].id = sch[k][l]

\* C26: starting from random_schedule or decode_particle_to_schedule and
\* applying any sequence of crossover, mutate, repair_schedule, adjacent
\* swap, cross-line reassignment and block shift, the schedule (and both
\* children of a crossover) always has exactly horizon_days*6 slots, every
\* slot has exactly Config.lines entries, and every non-idle entry is the id
\* of a product in Config.
C26_WellFormedInvariant ==
  /\ WellFormedSchedule(schedule, config, 1)
  /\ LastOp("crossover") =>
       /\ WellFormedSchedule(calls[1].info.child1, config, 1)
       /\ WellFormedSchedule(calls[1].info.child2, config, 1)

\* C26 witness: two operators applied in a row to a decoded particle, the
\* second one changing the schedule again.
C26_Witness ==
  /\ in0.source = "decode_particle_to_schedule"
  /\ OpsDone = MaxOps
  /\ calls[1].out # calls[1].arg
  /\ calls[1].arg # in0.schedule

(***************************************************************************)
(* Claim C27: the fitness cache of run_ga                                  *)
(***************************************************************************)
\* C27: the GA fitness cache is coherent.  The fitness values of a
\* population, which run_ga uses for tournament selection, for choosing the
\* generation's best and for updating best_fit, equal the fitness function
\* applied to the individuals' contents when the population is formed, and
\* a value cached under the identity of an individual of the population is
\* the fitness of its contents.  (Stated as the claim has it; the code
\* violates it.)
C27_CacheCoherent ==
  (ga.pc = "loop" /\ Len(ga.new_pop) = 1) =>
    /\ ga.fitnesses = TrueFitnesses(ga.rows, ga.lists, ga.population)
    /\ \A k \in DOMAIN ga.population :
         ga.eval_cache[ga.population[k]] # NoVal =>
           ga.eval_cache[ga.population[k]][1] =
             profit_of(Content(ga.rows, ga.lists[ga.population[k]]), config, orders)

(***************************************************************************)
(* compute_soft_fitness on schedules of MaxHorizon days with one order of  *)
(* product 1 that is due between day 0 and day 5; product 2 has no orders. *)
(***************************************************************************)
SoftOrderLists ==
  {<<[product |-> 1, qty |-> 2, unit_price |-> 4, arrival_day |-> 0,
      arrival_slot_index |-> 0, due_day |-> d, delivered |-> 0]>> : d \in 0..5}

\* schedules with at most two active line-slots
SoftSchedules(cfg) ==
  UNION {{ScheduleOf(MaxHorizon * SLOTS_PER_DAY, cfg.lines, f) : f \in [P -> ProductIds]} :
           P \in SubsetsUpTo((1..(MaxHorizon * SLOTS_PER_DAY)) \X (1..cfg.lines), 2)}

InitSoft ==
  /\ config = GaConfig
  /\ orders \in SoftOrderLists
  /\ schedule \in SoftSchedules(config)
  /\ in0 = [orders |-> orders, schedule |-> schedule]
  /\ calls = <<>>
  /\ res = NoRes
  /\ ga = GaIdle
  /\ ls = LsIdle
  /\ pso = PsoIdle
  /\ drv = DrvIdle

\* compute_soft_fitness(schedule, config, orders) with the default weights
\* 1.5, 0.8 and 0.0; the record keeps soft term 1 next to the result
SoftFitness ==
  /\ calls = <<>>
  /\ calls' = <<[fn |-> "compute_soft_fitness",
                 soft_deadline_pressure |-> soft_deadline_pressure(schedule, config, orders),
                 out |-> compute_soft_fitness(schedule, config, orders, 15, 8, 0)]>>
  /\ UNCHANGED <<config, orders, schedule, in0, res, ga, ls, pso, drv>>

NextSoft == SoftFitness

SpecSoft == InitSoft /\ [][NextSoft]_vars

(***************************************************************************)
(* Claim C28: the deadline pressure of the soft fitness                    *)
(***************************************************************************)
\* the schedule with no other active entry than line l of slot k
OnlyEntry(sch, k, l) ==
  [i \in DOMAIN sch |-> [j \in DOMAIN sch[i] |->
     IF i = k /\ j = l THEN sch[i][j] ELSE None]]

\* what line l of slot k adds to soft term 1, in halves
PressureOf(sch, cfg, ords, k, l) == soft_deadline_pressure(OnlyEntry(sch, k, l), cfg, ords)

\* the active line-slots whose product has orders
DueEntries(sch, ords) ==
  {x \in (DOMAIN sch) \X (1..config.lines) :
     sch[x[1]][x[2]] # None /\ HasOrders(ords, sch[x[1]][x[2]])}

DaysToDue(sch, ords, x) == EarliestDue(ords, sch[x[1]][x[2]]) - day_of_slot(x[1] - 1)

\* The deadline pressure is the sum over the active line-slots; a line-slot
\* whose product's earliest due day is at most n days after the slot's day
\* contributes a positive pressure, one whose earliest due day is further
\* away contributes 0, and of two line-slots of a product the one with fewer
\* days to the due day never contributes less, and contributes more if it
\* is on or after the due day.
DeadlinePressureWithin(n) ==
  calls # <<>> =>
    /\ calls[1].soft_deadline_pressure =
         SumSeq([k \in DOMAIN schedule |-> SumSeq([l \in DOMAIN schedule[k] |->
                   PressureOf(schedule, config, orders, k, l)])])
    /\ \A x \in DueEntries(schedule, orders) :
         IF DaysToDue(schedule, orders, x) <= n
           THEN PressureOf(schedule, config, orders, x[1], x[2]) > 0
           ELSE PressureOf(schedule, config, orders, x[1], x[2]) = 0
    /\ \A x, y \in DueEntries(schedule, orders) :
         ( /\ schedule[x[1]][x[2]] = schedule[y[1]][y[2]]
           /\ DaysToDue(schedule, orders, y) < DaysToDue(schedule, orders, x) )
         => /\ PressureOf(schedule, config, orders, y[1], y[2])
                 >= PressureOf(schedule, config, orders, x[1], x[2])
            /\ DaysToDue(schedule, orders, y) <= 0 =>
                 PressureOf(schedule, config, orders, y[1], y[2])
                   > PressureOf(schedule, config, orders, x[1], x[2])

\* C28 as stated: an active line-slot whose product's earliest due day is at
\* most 3 days after the slot's day contributes a positive pressure, one
\* more than 3 days away contributes 0, and the pressure never decreases as
\* days-to-due decreases.  (The code gives 0 at exactly 3 days.)
C28_DeadlinePressure == DeadlinePressureWithin(3)

\* C28, amended: an active line-slot whose product's earliest due day is at
\* most 2 days after the slot's day contributes a positive pressure (times
\* slot capacity), one whose earliest due day is 3 or more days away
\* contributes 0, and the pressure per unit of capacity never decreases as
\* days-to-due decreases, growing further on and after the due day.
C28_DeadlinePressureAmended == DeadlinePressureWithin(2)

\* C28 witness: a call on a schedule that runs the product on a day 3 days
\* before its due day, for no pressure, and on the next day, 2 days before.
C28_Witness ==
  /\ calls # <<>>
  /\ \E x, y \in DueEntries(schedule, orders) :
       /\ DaysToDue(schedule, orders, x) = 3
       /\ PressureOf(schedule, config, orders, x[1], x[2]) = 0
       /\ DaysToDue(schedule, orders, y) = 2
       /\ PressureOf(schedule, config, orders, y[1], y[2]) > 0
       /\ calls[1].soft_deadline_pressure = PressureOf(schedule, config, orders, y[1], y[2])

(***************************************************************************)
(* The inertia weight of run_pso (pso.py 212-245).  The weight w is held   *)
(* as a whole number of units of 1/(10 * iterations), in which 0.9 is      *)
(* 9 * iterations and 0.9 - 0.4 * (iteration / iterations) is              *)
(* 9 * iterations - 4 * iteration.  The swarm is left out: w depends on    *)
(* the argument w and on the iteration counter only.  pso.used lists the   *)
(* weight the velocity updates of every iteration were given.              *)
(***************************************************************************)
MaxIterations == 6

\* run_pso(..., iterations, w): the driver passes --pso_w, 0.9 by default
InitRunPso ==
  /\ config = BaseConfig
  /\ orders = <<>>
  /\ schedule = <<>>
  /\ in0 = [orders |-> orders, schedule |-> schedule]
  /\ calls = <<>>
  /\ res = NoRes
  /\ ga = GaIdle
  /\ ls = LsIdle
  /\ drv = DrvIdle
  /\ \E iterations \in 1..MaxIterations, w10 \in 4..9 :
       pso = [pc |-> "loop", iterations |-> iterations, iteration |-> 0,
              w_arg |-> w10 * iterations, w |-> w10 * iterations, used |-> <<>>]

\* One iteration of "for iteration in range(iterations)": every particle's
\* velocity is updated with w, then w = 0.9 - 0.4 * (iteration / iterations).
RunPsoIteration ==
  /\ pso.pc = "loop"
  /\ pso.iteration < pso.iterations
  /\ pso' = [pso EXCEPT !.used = Append(@, pso.w),
                        !.w = 9 * pso.iterations - 4 * pso.iteration,
                        !.iteration = @ + 1]
  /\ UNCHANGED <<config, orders, schedule, in0, calls, res, ga, ls, drv>>

\* the loop is over: the final evaluation and the return
RunPsoReturn ==
  /\ pso.pc = "loop"
  /\ pso.iteration = pso.iterations
  /\ pso' = [pso EXCEPT !.pc = "done"]
  /\ UNCHANGED <<config, orders, schedule, in0, calls, res, ga, ls, drv>>

NextRunPso == RunPsoIteration \/ RunPsoReturn

SpecRunPso == InitRunPso /\ [][NextRunPso]_vars

(***************************************************************************)
(* Claim C29: the inertia schedule of PSO                                  *)
(***************************************************************************)
\* C29: in a run of run_pso with N >= 2 iterations that the driver starts
\* with its default weight 0.9, the inertia weight used by the velocity updates
\* of the first iteration is 0.9, the weight decreases by the same amount
\* from each iteration to the next, and the velocity updates of the last
\* iteration use 0.5.  (Stated as the claim has it; the code violates it.)
C29_InertiaSchedule ==
  (pso.pc = "done" /\ pso.iterations >= 2 /\ pso.w_arg = 9 * pso.iterations) =>
    /\ Len(pso.used) = pso.iterations
    /\ pso.used[1] = 9 * pso.iterations
    /\ \A k \in 1..(pso.iterations - 1) : pso.used[k + 1] < pso.used[k]
    /\ \A k \in 1..(pso.iterations - 2) :
         pso.used[k] - pso.used[k + 1] = pso.used[k + 1] - pso.used[k + 2]
    /\ pso.used[pso.iterations] = 5 * pso.iterations

(***************************************************************************)
(* Claim C30: no idle entries without allow_idle                           *)
(***************************************************************************)
IdleFree(sch) == \A k \in DOMAIN sch : \A l \in DOMAIN sch[k] : sch[k][l] # None

GaOperators == {"crossover", "mutate", "repair_schedule"}

\* C30: when Config.allow_idle is false, no schedule produced by
\* random_schedule contains an idle entry, and crossover, mutate and
\* repair_schedule applied to idle-free schedules produce schedules without
\* idle entries.  (Stated as the claim has it; the code violates it.)
C30_NoIdleWithoutAllowIdle ==
  ~config.allow_idle =>
    /\ in0.source = "random_schedule" => IdleFree(in0.schedule)
    /\ ( /\ calls # <<>>
         /\ calls[1].fn \in GaOperators
         /\ IdleFree(calls[1].arg)
         /\ calls[1].fn = "crossover" => IdleFree(calls[1].info.parent2) )
       => /\ IdleFree(calls[1].out)
          /\ calls[1].fn = "crossover" =>
               IdleFree(calls[1].info.child1) /\ IdleFree(calls[1].info.child2)

====
